---- MODULE Spec2Model ----
(***************************************************************************)
(* Element cache cells, selections, chunked iteration and stacked          *)
(* selection of anndata-rs (anndata/src/element/base.rs).                  *)
(*                                                                         *)
(* Option<T> is a sequence of length 0 (None) or 1 (Some(x)).              *)
(* A value (ArrayData / Data) is a record [dtype, shape, data] with data   *)
(* the row-major buffer; a scalar has shape <<>> and one entry.            *)
(* A DataContainer is a record [encoding_type, shape, data]: the dataset   *)
(* on the backend with its encoding attribute.                             *)
(***************************************************************************)
EXTENDS Integers, Sequences, FiniteSets, TLC

VARIABLES
    elem,            \* the InnerElem / InnerArrayElem inside its slot
    last,            \* the last call on the element: name, argument, result, I/O
    written,         \* the value most recently written by save or subset
    warm_overwrite,  \* a save or subset has replaced a populated cache by a new value
    input,           \* the inputs of a run that applies one operation once
    pc,              \* position of such a run
    adata,           \* the dataset of the X round trip: [x |-> Option<element>]
    iter,            \* Option: the ChunkedArrayElem
    yielded,         \* the items next() has returned so far
    stack,           \* Option: the InnerStackedArrayElem
    slot             \* Option: the mutex cells behind the Slot handles

vars == <<elem, last, written, warm_overwrite, input, pc, adata, iter, yielded, stack, slot>>

\* ---------------------------------------------------------------- bounds
MaxRows == 2
MaxCols == 2
MaxIdxLen == 2
MaxItems == 5
MaxChunk == 3
MaxSources == 3
MaxSrcRows == 2

\* ---------------------------------------------------------------- Option
None == <<>>
Some(x) == <<x>>
IsSome(o) == o # <<>>
Unwrap(o) == o[1]

Min(a, b) == IF a <= b THEN a ELSE b

\* ---------------------------------------------------------------- shapes
RECURSIVE Prod(_)
Prod(sh) ==
    IF sh = <<>> THEN 1 ELSE Head(sh) * Prod(Tail(sh))

\* row-major position of a multi-index, and back
RECURSIVE Flatten(_, _)
Flatten(ix, sh) ==
    IF sh = <<>> THEN 0
    ELSE Head(ix) * Prod(Tail(sh)) + Flatten(Tail(ix), Tail(sh))

RECURSIVE Unflatten(_, _)
Unflatten(p, sh) ==
    IF sh = <<>> THEN <<>>
    ELSE <<p \div Prod(Tail(sh))>> \o Unflatten(p % Prod(Tail(sh)), Tail(sh))

\* ------------------------------------------------------------ selections
\* SelectInfoElem: Slice(ndarray::Slice {start, end: Option, step}) or Index(Vec)
SliceElem(start, end, step) ==
    [tag |-> "Slice", start |-> start, end |-> end, step |-> step]

IndexElem(idx) ==
    [tag |-> "Index", idx |-> idx]

FullSlice == SliceElem(0, None, 1)

is_full(s) ==
    s = FullSlice

\* BoundedSlice::new: a missing end is the axis length, an end beyond the axis
\* is capped
BoundedSlice(slice, bound) ==
    [start |-> slice.start,
     end   |-> IF slice.end = None THEN bound ELSE Min(Unwrap(slice.end), bound),
     step  |-> slice.step]

\* the positions a bounded slice visits: ascending from start for a positive
\* step, descending from end - 1 for a negative one (ndarray's convention)
SliceIndices(b) ==
    LET a   == IF b.step < 0 THEN 0 - b.step ELSE b.step
        len == IF b.end <= b.start THEN 0 ELSE (b.end - b.start + a - 1) \div a
    IN  [k \in 1..len |-> IF b.step > 0 THEN b.start + (k - 1) * a
                          ELSE b.end - 1 - (k - 1) * a]

AxisIndices(s, n) ==
    IF s.tag = "Index" THEN s.idx ELSE SliceIndices(BoundedSlice(s, n))

\* a selection shorter than the number of axes is full on the remaining axes
PadSelection(sel, d) ==
    [k \in 1..d |-> IF k <= Len(sel) THEN sel[k] ELSE FullSlice]

\* ArrayOp::select: the selection taken in memory, all axes at once
ArraySelect(v, sel) ==
    LET d   == Len(v.shape)
        ps  == PadSelection(sel, d)
        I   == [k \in 1..d |-> AxisIndices(ps[k], v.shape[k])]
        rsh == [k \in 1..d |-> Len(I[k])]
    IN  [dtype |-> v.dtype,
         shape |-> rsh,
         data  |-> [p \in 1..Prod(rsh) |->
                      LET m == Unflatten(p - 1, rsh)
                      IN  v.data[Flatten([k \in 1..d |-> I[k][m[k] + 1]], v.shape) + 1]]]

\* ------------------------------------------------------------- backend
\* WriteData::write / overwrite: the dataset and its encoding attribute
WriteData(v) ==
    [encoding_type |-> v.dtype, shape |-> v.shape, data |-> v.data]

\* ReadData::read: the whole dataset
ReadData(c) ==
    [dtype |-> c.encoding_type, shape |-> c.shape, data |-> c.data]

\* ArrayData::get_shape: the shape attribute, no data read
get_shape(c) ==
    c.shape

\* one axis of a hyperslab read: the blocks of axis k picked by idx
TakeAxis(c, k, idx) ==
    LET sh    == c.shape
        inner == Prod(SubSeq(sh, k + 1, Len(sh)))
        outer == Prod(SubSeq(sh, 1, k - 1))
        n     == sh[k]
        m     == Len(idx)
    IN  [encoding_type |-> c.encoding_type,
         shape |-> [j \in 1..Len(sh) |-> IF j = k THEN m ELSE sh[j]],
         data  |-> [p \in 1..(outer * m * inner) |->
                      LET o == (p - 1) \div (m * inner)
                          r == ((p - 1) % (m * inner)) \div inner
                          i == (p - 1) % inner
                      IN  c.data[o * n * inner + idx[r + 1] * inner + i + 1]]]

\* ReadArrayData::read_select: the selected region of the dataset, one axis
\* after the other, without reading the rest
RECURSIVE ReadSelectFrom(_, _, _)
ReadSelectFrom(c, ps, k) ==
    IF k > Len(ps) THEN c
    ELSE ReadSelectFrom(TakeAxis(c, k, AxisIndices(ps[k], c.shape[k])), ps, k + 1)

read_select(c, sel) ==
    ReadData(ReadSelectFrom(c, PadSelection(sel, Len(c.shape)), 1))

\* ------------------------------------------------ InnerElem (general data)
\* the outcome of a call: the element afterwards, the value returned (Option),
\* the number of whole reads and of selective reads issued against the backend,
\* and the value written to another location (Option)
Outcome(e, ret, reads, sel_reads, out) ==
    [elem |-> e, ret |-> ret, reads |-> reads, sel_reads |-> sel_reads, out |-> out]

\* TryFrom<DataContainer> for Elem
Elem_try_from(container) ==
    [kind |-> "Elem", dtype |-> container.encoding_type, cache_enabled |-> FALSE,
     element |-> None, container |-> container]

InnerElem_enable_cache(e) ==
    Outcome([e EXCEPT !.cache_enabled = TRUE], None, 0, 0, None)

InnerElem_disable_cache(e) ==
    Outcome([e EXCEPT !.element = None, !.cache_enabled = FALSE], None, 0, 0, None)

InnerElem_save(e, data) ==
    LET e1 == [e EXCEPT !.container = WriteData(data)]
    IN  Outcome(IF IsSome(e1.element) THEN [e1 EXCEPT !.element = Some(data)] ELSE e1,
                None, 0, 0, None)

InnerElem_data(e) ==
    IF IsSome(e.element) THEN Outcome(e, e.element, 0, 0, None)
    ELSE LET data == ReadData(e.container)
         IN  Outcome(IF e.cache_enabled THEN [e EXCEPT !.element = Some(data)] ELSE e,
                     Some(data), 1, 0, None)

InnerElem_export(e) ==
    IF IsSome(e.element) THEN Outcome(e, None, 0, 0, Some(WriteData(Unwrap(e.element))))
    ELSE Outcome(e, None, 1, 0, Some(WriteData(ReadData(e.container))))

\* ------------------------------------------------ InnerArrayElem (arrays)
\* TryFrom<DataContainer> for ArrayElem
ArrayElem_try_from(container) ==
    [kind |-> "ArrayElem", dtype |-> container.encoding_type,
     shape |-> get_shape(container), cache_enabled |-> FALSE,
     element |-> None, container |-> container]

InnerArrayElem_enable_cache(e) ==
    Outcome([e EXCEPT !.cache_enabled = TRUE], None, 0, 0, None)

\* mutant: the flag is cleared and the materialized value is kept
Mut_disable_cache_keeps(e) ==
    Outcome([e EXCEPT !.cache_enabled = FALSE], None, 0, 0, None)

InnerArrayElem_disable_cache(e) ==
    Outcome([e EXCEPT !.element = None, !.cache_enabled = FALSE], None, 0, 0, None)

\* mutant: the container is overwritten and a populated cache is left as it was
Mut_save_stale(e, data) ==
    Outcome([e EXCEPT !.container = WriteData(data), !.shape = data.shape],
            None, 0, 0, None)

\* mutant: the saved value is cached whenever caching is enabled
Mut_save_populates(e, data) ==
    LET e1 == [e EXCEPT !.container = WriteData(data), !.shape = data.shape]
    IN  Outcome(IF IsSome(e1.element) \/ e1.cache_enabled
                THEN [e1 EXCEPT !.element = Some(data)] ELSE e1,
                None, 0, 0, None)

InnerArrayElem_save(e, data) ==
    LET e1 == [e EXCEPT !.container = WriteData(data), !.shape = data.shape]
    IN  Outcome(IF IsSome(e1.element) THEN [e1 EXCEPT !.element = Some(data)] ELSE e1,
                None, 0, 0, None)

\* mutant: the value read is cached whatever the flag says
Mut_data_always_caches(e) ==
    IF IsSome(e.element) THEN Outcome(e, e.element, 0, 0, None)
    ELSE LET data == ReadData(e.container)
         IN  Outcome([e EXCEPT !.element = Some(data)], Some(data), 1, 0, None)

InnerArrayElem_data(e) ==
    IF IsSome(e.element) THEN Outcome(e, e.element, 0, 0, None)
    ELSE LET data == ReadData(e.container)
         IN  Outcome(IF e.cache_enabled THEN [e EXCEPT !.element = Some(data)] ELSE e,
                     Some(data), 1, 0, None)

InnerArrayElem_export(e) ==
    IF IsSome(e.element) THEN Outcome(e, None, 0, 0, Some(WriteData(Unwrap(e.element))))
    ELSE Outcome(e, None, 1, 0, Some(WriteData(ReadData(e.container))))

\* mutant: a cold partial selection reads the whole value first, then slices it
Mut_select_materializes(e, selection) ==
    IF IsSome(e.element)
    THEN Outcome(e, Some(ArraySelect(Unwrap(e.element), selection)), 0, 0, None)
    ELSE LET r == InnerArrayElem_data(e)
         IN  Outcome(r.elem, Some(ArraySelect(Unwrap(r.ret), selection)), 1, 0, None)

\* mutant: the selection counts as full as soon as one axis is full
Mut_select_any_full(e, selection) ==
    IF \E k \in 1..Len(selection) : is_full(selection[k]) THEN InnerArrayElem_data(e)
    ELSE IF IsSome(e.element)
         THEN Outcome(e, Some(ArraySelect(Unwrap(e.element), selection)), 0, 0, None)
         ELSE Outcome(e, Some(read_select(e.container, selection)), 0, 1, None)

InnerArrayElem_select(e, selection) ==
    IF \A k \in 1..Len(selection) : is_full(selection[k]) THEN InnerArrayElem_data(e)
    ELSE IF IsSome(e.element)
         THEN Outcome(e, Some(ArraySelect(Unwrap(e.element), selection)), 0, 0, None)
         ELSE Outcome(e, Some(read_select(e.container, selection)), 0, 1, None)

InnerArrayElem_export_select(e, selection) ==
    IF \A k \in 1..Len(selection) : is_full(selection[k]) THEN InnerArrayElem_export(e)
    ELSE LET r == InnerArrayElem_select(e, selection)
         IN  Outcome(r.elem, None, r.reads, r.sel_reads, Some(WriteData(Unwrap(r.ret))))

\* mutant: the container is shrunk and a populated cache is left as it was
Mut_subset_stale(e, selection) ==
    LET cold == ~IsSome(e.element)
        data == IF cold THEN read_select(e.container, selection)
                ELSE ArraySelect(Unwrap(e.element), selection)
    IN  Outcome([e EXCEPT !.shape = data.shape, !.container = WriteData(data)],
                None, 0, IF cold THEN 1 ELSE 0, None)

InnerArrayElem_subset(e, selection) ==
    LET cold == ~IsSome(e.element)
        data == IF cold THEN read_select(e.container, selection)
                ELSE ArraySelect(Unwrap(e.element), selection)
        e1   == [e EXCEPT !.shape = data.shape, !.container = WriteData(data)]
    IN  Outcome(IF IsSome(e1.element) THEN [e1 EXCEPT !.element = Some(data)] ELSE e1,
                None, 0, IF cold THEN 1 ELSE 0, None)

\* ------------------------------------------------------------ the inputs
MkValue(dtype, shape, base) ==
    [dtype |-> dtype, shape |-> shape, data |-> [p \in 1..Prod(shape) |-> base + p]]

\* arrays of 0..MaxRows rows, and one of another dtype
ArrayValues ==
    {MkValue("Array(i32)", <<r, MaxCols>>, 10 * r) : r \in 0..MaxRows}
        \cup {MkValue("Array(f64)", <<1, MaxCols>>, 50)}

\* scalars held by a general element
DataValues ==
    {MkValue("Scalar(i32)", <<>>, 0), MkValue("Scalar(i32)", <<>>, 1),
     MkValue("Scalar(f64)", <<>>, 0)}

\* the selections the calls of Spec draw from: full, every unit-step row range,
\* every single row, and one column pick
ProtoSelections(shape) ==
    {<<FullSlice>>, <<FullSlice, FullSlice>>, <<FullSlice, IndexElem(<<0>>)>>}
        \cup {<<SliceElem(a, Some(b), 1)>> : a \in 0..shape[1], b \in 0..shape[1]}
        \cup {<<IndexElem(<<i>>)>> : i \in 0..(shape[1] - 1)}

ValidSelection(sel, shape) ==
    \A k \in 1..Len(sel) :
        IF sel[k].tag = "Index"
        THEN \A j \in 1..Len(sel[k].idx) : sel[k].idx[j] < shape[k]
        ELSE LET b == BoundedSlice(sel[k], shape[k])
             IN  0 <= b.start /\ b.start <= b.end /\ b.end <= shape[k]

\* ------------------------------------------------------------------ Spec
\* One element attached to a container; any sequence of calls on it.
NoCall ==
    [op |-> "attach", arg |-> None, ret |-> None, reads |-> 0, sel_reads |-> 0,
     out |-> None, pre_enabled |-> FALSE, pre_cached |-> FALSE]

Log(op, arg, r) ==
    [op |-> op, arg |-> arg, ret |-> r.ret, reads |-> r.reads,
     sel_reads |-> r.sel_reads, out |-> r.out,
     pre_enabled |-> elem.cache_enabled, pre_cached |-> IsSome(elem.element)]

runVars == <<input, pc, adata, iter, yielded, stack, slot>>

IdleRun ==
    /\ input = None
    /\ pc = "idle"
    /\ adata = None
    /\ iter = None
    /\ yielded = <<>>
    /\ stack = None
    /\ slot = None

Init ==
    /\ \/ \E v \in ArrayValues : elem = ArrayElem_try_from(WriteData(v)) /\ written = v
       \/ \E v \in DataValues : elem = Elem_try_from(WriteData(v)) /\ written = v
    /\ last = NoCall
    /\ warm_overwrite = FALSE
    /\ IdleRun

IsArray == elem.kind = "ArrayElem"

enable_cache ==
    LET r == IF IsArray THEN InnerArrayElem_enable_cache(elem)
             ELSE InnerElem_enable_cache(elem)
    IN  /\ elem' = r.elem
        /\ last' = Log("enable_cache", None, r)
        /\ UNCHANGED <<written, warm_overwrite, runVars>>

disable_cache ==
    LET r == IF IsArray THEN InnerArrayElem_disable_cache(elem)
             ELSE InnerElem_disable_cache(elem)
    IN  /\ elem' = r.elem
        /\ last' = Log("disable_cache", None, r)
        /\ warm_overwrite' = FALSE
        /\ UNCHANGED <<written, runVars>>

data ==
    LET r == IF IsArray THEN InnerArrayElem_data(elem) ELSE InnerElem_data(elem)
    IN  /\ elem' = r.elem
        /\ last' = Log("data", None, r)
        /\ UNCHANGED <<written, warm_overwrite, runVars>>

save ==
    \E v \in (IF IsArray THEN ArrayValues ELSE DataValues) :
        LET r == IF IsArray THEN InnerArrayElem_save(elem, v) ELSE InnerElem_save(elem, v)
        IN  /\ elem' = r.elem
            /\ last' = Log("save", Some(v), r)
            /\ written' = v
            /\ warm_overwrite' = (warm_overwrite \/ (IsSome(elem.element) /\ v # written))
            /\ UNCHANGED runVars

export ==
    LET r == IF IsArray THEN InnerArrayElem_export(elem) ELSE InnerElem_export(elem)
    IN  /\ elem' = r.elem
        /\ last' = Log("export", None, r)
        /\ UNCHANGED <<written, warm_overwrite, runVars>>

select ==
    /\ IsArray
    /\ \E s \in ProtoSelections(elem.shape) :
        LET r == InnerArrayElem_select(elem, s)
        IN  /\ ValidSelection(s, elem.shape)
            /\ elem' = r.elem
            /\ last' = Log("select", Some(s), r)
            /\ UNCHANGED <<written, warm_overwrite, runVars>>

export_select ==
    /\ IsArray
    /\ \E s \in ProtoSelections(elem.shape) :
        LET r == InnerArrayElem_export_select(elem, s)
        IN  /\ ValidSelection(s, elem.shape)
            /\ elem' = r.elem
            /\ last' = Log("export_select", Some(s), r)
            /\ UNCHANGED <<written, warm_overwrite, runVars>>

subset ==
    /\ IsArray
    /\ \E s \in ProtoSelections(elem.shape) :
        LET r == InnerArrayElem_subset(elem, s)
            w == ArraySelect(written, s)
        IN  /\ ValidSelection(s, elem.shape)
            /\ elem' = r.elem
            /\ last' = Log("subset", Some(s), r)
            /\ written' = w
            /\ warm_overwrite' = (warm_overwrite \/ (IsSome(elem.element) /\ w # written))
            /\ UNCHANGED runVars

Next ==
    \/ enable_cache
    \/ disable_cache
    \/ data
    \/ save
    \/ export
    \/ select
    \/ export_select
    \/ subset

Spec == Init /\ [][Next]_vars

\* ------------------------------------------------------- claims on Spec
AllFull(s) ==
    \A k \in 1..Len(s) : is_full(s[k])

\* C1: data() returns the value most recently written by save or subset,
\* never a value an earlier save left in the cache.
C1_CacheCoherence ==
    last.op = "data" => last.ret = Some(written)

\* a data() served from a cache that a save or subset has overwritten
C1_Witness ==
    /\ last.op = "data"
    /\ last.pre_cached
    /\ warm_overwrite
    /\ last.ret = Some(written)

\* C2: whenever the cache flag is false the materialized slot is empty.
C2_FlagOffSlotEmpty ==
    ~elem.cache_enabled => elem.element = None

\* the flag has just been cleared on an element whose cache was populated
C2_Witness ==
    /\ last.op = "disable_cache"
    /\ last.pre_cached
    /\ ~elem.cache_enabled
    /\ elem.element = None

\* C3: save never populates a cold cache, replaces a populated one by the
\* saved value, and leaves the cache flag alone.
C3_SaveFrame ==
    last.op = "save" =>
        /\ IsSome(elem.element) <=> last.pre_cached
        /\ last.pre_cached => elem.element = last.arg
        /\ elem.cache_enabled = last.pre_enabled

\* a save on an element with caching enabled and nothing cached yet
C3_Witness ==
    /\ last.op = "save"
    /\ last.pre_enabled
    /\ ~last.pre_cached
    /\ elem.element = None

\* C4: disable_cache empties the slot and clears the flag at once; with the
\* cache disabled each data() issues exactly one whole read; enable_cache reads
\* nothing and fills nothing; a slot that was empty is filled only by a data()
\* (directly or through a full select) that read the backend.
C4_CacheToggle ==
    /\ last.op = "disable_cache" =>
          elem.element = None /\ ~elem.cache_enabled /\ last.reads = 0
    /\ (last.op = "data" /\ ~last.pre_enabled) =>
          last.reads = 1 /\ last.ret = Some(ReadData(elem.container))
    /\ last.op = "enable_cache" =>
          /\ last.reads = 0 /\ last.sel_reads = 0
          /\ elem.cache_enabled
          /\ IsSome(elem.element) <=> last.pre_cached
    /\ (IsSome(elem.element) /\ ~last.pre_cached) =>
          /\ last.op \in {"data", "select"}
          /\ last.reads = 1
          /\ last.pre_enabled
          /\ elem.element = last.ret

\* a data() on an element whose cache is disabled
C4_Witness ==
    /\ last.op = "data"
    /\ ~last.pre_enabled
    /\ ~elem.cache_enabled
    /\ last.reads = 1
    /\ elem.element = None

\* C6: a selection full on every axis behaves as data(); a partial one is
\* sliced from the cache without any read when a value is cached, and otherwise
\* costs exactly one read_select, no whole read, and leaves the slot empty.
C6_SelectRouting ==
    last.op = "select" =>
        IF AllFull(Unwrap(last.arg))
        THEN /\ last.ret = Some(written)
             /\ last.sel_reads = 0
             /\ last.reads = (IF last.pre_cached THEN 0 ELSE 1)
             /\ IsSome(elem.element) <=> (last.pre_cached \/ last.pre_enabled)
             /\ IsSome(elem.element) => elem.element = Some(written)
        ELSE IF last.pre_cached
        THEN /\ last.reads = 0 /\ last.sel_reads = 0
             /\ last.ret = Some(ArraySelect(written, Unwrap(last.arg)))
             /\ elem.element = Some(written)
        ELSE /\ last.reads = 0 /\ last.sel_reads = 1
             /\ elem.element = None

\* a partial selection on an element with caching enabled and nothing cached
C6_Witness ==
    /\ last.op = "select"
    /\ ~AllFull(Unwrap(last.arg))
    /\ last.pre_enabled
    /\ ~last.pre_cached
    /\ last.sel_reads = 1
    /\ elem.element = None

\* C18: subset(s) replaces the data by the selection: after the call the shape
\* is the shape of the selected value, data() returns what select(s) returned
\* just before the call, the container holds that value, and the slot is
\* populated exactly when it was populated before.
C18_SubsetReplaces ==
    [][last'.op = "subset" =>
          LET s == Unwrap(last'.arg)
              v == Unwrap(InnerArrayElem_select(elem, s).ret)
          IN  /\ elem'.shape = v.shape
              /\ InnerArrayElem_data(elem').ret = Some(v)
              /\ ReadData(elem'.container) = v
              /\ IsSome(elem'.element) <=> IsSome(elem.element)
              /\ IsSome(elem'.element) => elem'.element = Some(v)]_vars

\* a subset by a partial selection has shrunk an element whose cache was
\* populated: the second row of the largest array is what is left, in the
\* cache and in the container
C18_Witness ==
    /\ last.op = "subset"
    /\ ~AllFull(Unwrap(last.arg))
    /\ last.pre_cached
    /\ elem.shape = <<1, MaxCols>>
    /\ elem.element = Some(written)
    /\ ReadData(elem.container) = written
    /\ written.data[1] = 10 * MaxRows + MaxCols + 1

\* ------------------------------------------------------------ SpecSelect
\* One stored array and one selection, drawn at the start; the element is
\* attached, optionally warmed by enable_cache and data, and select is applied.
Steps == {1, 2, -1}

IndexLists(n) ==
    UNION {[1..k -> 0..(n - 1)] : k \in 0..MaxIdxLen}

\* every selection of an axis of length n: slices with start <= end <= n + 1 or
\* an open end, and index lists of up to MaxIdxLen positions
AxisSels(n) ==
    {SliceElem(a, Some(b), s) : a \in 0..n, b \in 0..(n + 1), s \in Steps}
        \cup {SliceElem(a, None, s) : a \in 0..n, s \in Steps}
        \cup {IndexElem(l) : l \in IndexLists(n)}

\* the third axis has two entries: it is taken whole, by one slice or by one index
ThirdAxisSels ==
    {FullSlice, SliceElem(0, Some(1), 1), IndexElem(<<1>>)}

InitSelect ==
    /\ \E r \in 0..MaxRows, c \in 0..MaxCols :
       \E s1 \in AxisSels(r), s2 \in AxisSels(c) :
          \/ input = [v |-> MkValue("Array(i32)", <<r, c>>, 0), sel |-> <<s1, s2>>]
          \/ \E s3 \in ThirdAxisSels :
                input = [v |-> MkValue("Array(i32)", <<r, c, 2>>, 0),
                         sel |-> <<s1, s2, s3>>]
    /\ ValidSelection(input.sel, input.v.shape)
    /\ elem = ArrayElem_try_from(WriteData(input.v))
    /\ written = input.v
    /\ last = NoCall
    /\ pc = "attached"
    /\ warm_overwrite = FALSE
    /\ adata = None
    /\ iter = None
    /\ yielded = <<>>
    /\ stack = None
    /\ slot = None

run_enable_cache ==
    /\ pc = "attached"
    /\ elem' = InnerArrayElem_enable_cache(elem).elem
    /\ pc' = "enabled"
    /\ UNCHANGED <<last, written, warm_overwrite, input, adata, iter, yielded, stack, slot>>

run_data ==
    /\ pc = "enabled"
    /\ elem' = InnerArrayElem_data(elem).elem
    /\ pc' = "warm"
    /\ UNCHANGED <<last, written, warm_overwrite, input, adata, iter, yielded, stack, slot>>

run_select ==
    /\ pc \in {"attached", "enabled", "warm"}
    /\ LET r == InnerArrayElem_select(elem, input.sel)
       IN  /\ elem' = r.elem
           /\ last' = Log("select", Some(input.sel), r)
    /\ pc' = "done"
    /\ UNCHANGED <<written, warm_overwrite, input, adata, iter, yielded, stack, slot>>

NextSelect ==
    \/ run_enable_cache
    \/ run_data
    \/ run_select

SpecSelect == InitSelect /\ [][NextSelect]_vars

\* C5: select(s) returns what selecting s in memory from the fully read value
\* returns, with the cache cold and with it warm.
C5_SelectEquivalence ==
    pc = "done" => last.ret = Some(ArraySelect(input.v, input.sel))

\* a cold selection by an unsorted index list with a repeated row and a stepped
\* column slice, answered by read_select
C5_Witness ==
    /\ pc = "done"
    /\ ~last.pre_cached
    /\ last.sel_reads = 1
    /\ input.v.shape = <<2, 2>>
    /\ input.sel = <<IndexElem(<<1, 1>>), SliceElem(0, None, -1)>>
    /\ Unwrap(last.ret).data = <<4, 3, 4, 3>>

\* ---------------------------------------------------------------- SpecIO
\* The X slot of a dataset: set_x, read_x and del_x of AnnDataOp, on the
\* file-backed dataset (an ArrayElem over a container) and on the in-memory
\* one (the array object held by the Python AnnData).
Backends == {"H5", "Py"}

\* the array as the in-memory dataset holds it, and back
IntoPy(v) ==
    [np_dtype |-> IF v.dtype = "Array(i32)" THEN "int32" ELSE "float64",
     np_shape |-> v.shape, buffer |-> v.data]

FromPy(o) ==
    [dtype |-> IF o.np_dtype = "int32" THEN "Array(i32)" ELSE "Array(f64)",
     shape |-> o.np_shape, data |-> o.buffer]

AnnData_new(backend) ==
    [backend |-> backend, x |-> None]

\* set_x: a fresh X is written and attached, an existing one is saved into
AnnData_set_x(ad, v) ==
    IF ad.backend = "Py" THEN [ad EXCEPT !.x = Some(IntoPy(v))]
    ELSE IF IsSome(ad.x)
    THEN [ad EXCEPT !.x = Some(InnerArrayElem_save(Unwrap(ad.x), v).elem)]
    ELSE [ad EXCEPT !.x = Some(ArrayElem_try_from(WriteData(v)))]

\* read_x: None without X, else the data of the element
AnnData_read_x(ad) ==
    IF ~IsSome(ad.x) THEN [adata |-> ad, ret |-> None]
    ELSE IF ad.backend = "Py" THEN [adata |-> ad, ret |-> Some(FromPy(Unwrap(ad.x)))]
    ELSE LET r == InnerArrayElem_data(Unwrap(ad.x))
         IN  [adata |-> [ad EXCEPT !.x = Some(r.elem)], ret |-> r.ret]

AnnData_del_x(ad) ==
    [ad EXCEPT !.x = None]

\* arrays of 2 and 3 axes, zero-length axes included
IOValues ==
    {MkValue(dt, <<r, c>>, 0) : dt \in {"Array(i32)", "Array(f64)"},
                                 r \in 0..MaxRows, c \in 0..MaxCols}
    \cup {MkValue("Array(i32)", <<r, c, d>>, 0) :
             r \in 0..MaxRows, c \in 0..MaxCols, d \in {0, 2}}

InitIO ==
    /\ \E b \in Backends : adata = AnnData_new(b)
    /\ last = [op |-> "new", ret |-> None]
    /\ written = None
    /\ elem = None
    /\ warm_overwrite = FALSE
    /\ input = None
    /\ pc = "idle"
    /\ iter = None
    /\ yielded = <<>>
    /\ stack = None
    /\ slot = None

ioFrame == <<elem, warm_overwrite, input, pc, iter, yielded, stack, slot>>

set_x ==
    \E v \in IOValues :
        /\ adata' = AnnData_set_x(adata, v)
        /\ last' = [op |-> "set_x", ret |-> None]
        /\ written' = Some(v)
        /\ UNCHANGED ioFrame

read_x ==
    LET r == AnnData_read_x(adata)
    IN  /\ adata' = r.adata
        /\ last' = [op |-> "read_x", ret |-> r.ret]
        /\ UNCHANGED <<written, ioFrame>>

del_x ==
    /\ adata' = AnnData_del_x(adata)
    /\ last' = [op |-> "del_x", ret |-> None]
    /\ written' = None
    /\ UNCHANGED ioFrame

x_enable_cache ==
    /\ adata.backend = "H5"
    /\ IsSome(adata.x)
    /\ adata' = [adata EXCEPT !.x = Some(InnerArrayElem_enable_cache(Unwrap(adata.x)).elem)]
    /\ last' = [op |-> "enable_cache", ret |-> None]
    /\ UNCHANGED <<written, ioFrame>>

NextIO ==
    \/ set_x
    \/ read_x
    \/ del_x
    \/ x_enable_cache

SpecIO == InitIO /\ [][NextIO]_vars

ChunkedArrayElem_new(e, chunk_size) ==
    [chunk_size |-> chunk_size, num_items |-> e.shape[1], current_position |-> 0]

\* mutant: the end of a chunk is not capped at the number of rows
Mut_next_uncapped(it, e) ==
    IF it.current_position >= it.num_items
    THEN [iter |-> it, elem |-> e, item |-> None, reads |-> 0, sel_reads |-> 0]
    ELSE LET i == it.current_position
             j == it.current_position + it.chunk_size
             r == InnerArrayElem_select(e, <<SliceElem(i, Some(j), 1)>>)
         IN  [iter |-> [it EXCEPT !.current_position = j], elem |-> r.elem,
              item |-> Some([data |-> Unwrap(r.ret), start |-> i, end |-> j]),
              reads |-> r.reads, sel_reads |-> r.sel_reads]

\* mutant: a chunk that covers every row is read with the full selection
Mut_next_full_when_whole(it, e) ==
    IF it.current_position >= it.num_items
    THEN [iter |-> it, elem |-> e, item |-> None, reads |-> 0, sel_reads |-> 0]
    ELSE LET i == it.current_position
             j == Min(it.num_items, it.current_position + it.chunk_size)
             r == InnerArrayElem_select(e, IF i = 0 /\ j = it.num_items THEN <<FullSlice>>
                                           ELSE <<SliceElem(i, Some(j), 1)>>)
         IN  [iter |-> [it EXCEPT !.current_position = j], elem |-> r.elem,
              item |-> Some([data |-> Unwrap(r.ret), start |-> i, end |-> j]),
              reads |-> r.reads, sel_reads |-> r.sel_reads]

\* Iterator::next
ChunkedArrayElem_next(it, e) ==
    IF it.current_position >= it.num_items
    THEN [iter |-> it, elem |-> e, item |-> None, reads |-> 0, sel_reads |-> 0]
    ELSE LET i == it.current_position
             j == Min(it.num_items, it.current_position + it.chunk_size)
             r == InnerArrayElem_select(e, <<SliceElem(i, Some(j), 1)>>)
         IN  [iter |-> [it EXCEPT !.current_position = j], elem |-> r.elem,
              item |-> Some([data |-> Unwrap(r.ret), start |-> i, end |-> j]),
              reads |-> r.reads, sel_reads |-> r.sel_reads]

\* mutant: the last, shorter chunk is not counted
Mut_len_floor(it) ==
    it.num_items \div it.chunk_size

\* ExactSizeIterator::len
ChunkedArrayElem_len(it) ==
    LET n      == it.num_items \div it.chunk_size
        remain == it.num_items % it.chunk_size
    IN  IF remain = 0 THEN n ELSE n + 1

\* ------------------------------------------------------------- SpecChunk
\* An array element of 0..MaxItems rows, cold or warmed, iterated in chunks of
\* 1..MaxChunk rows by repeated next().
InitChunk ==
    /\ \E n \in 0..MaxItems :
          /\ elem = ArrayElem_try_from(WriteData(MkValue("Array(i32)", <<n, MaxCols>>, 0)))
          /\ written = MkValue("Array(i32)", <<n, MaxCols>>, 0)
    /\ \E c \in 1..MaxChunk : input = [chunk_size |-> c]
    /\ last = NoCall
    /\ pc = "attached"
    /\ warm_overwrite = FALSE
    /\ adata = None
    /\ iter = None
    /\ yielded = <<>>
    /\ stack = None
    /\ slot = None

chunked ==
    /\ pc \in {"attached", "enabled", "warm"}
    /\ iter' = Some(ChunkedArrayElem_new(elem, input.chunk_size))
    /\ pc' = "iterating"
    /\ UNCHANGED <<elem, last, written, warm_overwrite, input, adata, yielded, stack, slot>>

next ==
    /\ pc = "iterating"
    /\ LET r == ChunkedArrayElem_next(Unwrap(iter), elem)
       IN  /\ iter' = Some(r.iter)
           /\ elem' = r.elem
           /\ yielded' = IF IsSome(r.item) THEN Append(yielded, Unwrap(r.item)) ELSE yielded
           /\ last' = [op |-> "next", ret |-> r.item, reads |-> r.reads,
                       sel_reads |-> r.sel_reads,
                       pre_position |-> Unwrap(iter).current_position,
                       pre_cached |-> IsSome(elem.element)]
    /\ UNCHANGED <<written, warm_overwrite, input, pc, adata, stack, slot>>

NextChunk ==
    \/ run_enable_cache
    \/ run_data
    \/ chunked
    \/ next

SpecChunk == InitChunk /\ [][NextChunk]_vars

\* rows [a, b) of an array
Rows(v, a, b) ==
    ArraySelect(v, <<SliceElem(a, Some(b), 1)>>)

\* the buffers of the chunks one after the other
RECURSIVE ConcatData(_)
ConcatData(items) ==
    IF items = <<>> THEN <<>> ELSE Head(items).data.data \o ConcatData(Tail(items))

Exhausted ==
    pc = "iterating" /\ Unwrap(iter).current_position >= Unwrap(iter).num_items

\* C8: the chunks start at 0, each starts where the previous one ended and ends
\* at min(n, start + c), each holds rows [start, end) of the element, and once
\* the iterator is exhausted the last one ends at n and the chunks laid end to
\* end are the element's data.
C8_ChunkedComplete ==
    LET n == written.shape[1]
        c == input.chunk_size
    IN  /\ \A k \in 1..Len(yielded) :
              /\ yielded[k].start = (IF k = 1 THEN 0 ELSE yielded[k - 1].end)
              /\ yielded[k].end = Min(n, yielded[k].start + c)
              /\ yielded[k].start < yielded[k].end
              /\ yielded[k].data = Rows(written, yielded[k].start, yielded[k].end)
        /\ Exhausted =>
              /\ n > 0 => yielded[Len(yielded)].end = n
              /\ n = 0 => yielded = <<>>
              /\ ConcatData(yielded) = written.data

\* an exhausted iteration of several chunks whose last chunk is shorter
C8_Witness ==
    /\ Exhausted
    /\ Len(yielded) >= 2
    /\ written.shape[1] % input.chunk_size # 0
    /\ yielded[Len(yielded)].end = written.shape[1]
    /\ ConcatData(yielded) = written.data

\* C9: len() is ceil(n / c); next() yields an item exactly while rows remain,
\* so exactly len() items, and once exhausted it returns None without reading.
C9_ChunkedFinite ==
    pc = "iterating" =>
        LET it   == Unwrap(iter)
            ceil == (it.num_items + it.chunk_size - 1) \div it.chunk_size
        IN  /\ ChunkedArrayElem_len(it) = ceil
            /\ Len(yielded) <= ceil
            /\ Exhausted => Len(yielded) = ceil
            /\ last.op = "next" =>
                  IF last.pre_position >= it.num_items
                  THEN last.ret = None /\ last.reads = 0 /\ last.sel_reads = 0
                  ELSE IsSome(last.ret)

\* a next() on an exhausted iterator that had a shorter last chunk
C9_Witness ==
    /\ pc = "iterating"
    /\ last.op = "next"
    /\ last.pre_position >= Unwrap(iter).num_items
    /\ last.ret = None
    /\ Len(yielded) >= 2
    /\ Unwrap(iter).num_items % Unwrap(iter).chunk_size # 0

\* ----------------------------------------------------------- VecVecIndex
\* Result<T>
Ok(v) == [ok |-> TRUE, val |-> v]
Err == [ok |-> FALSE, val |-> None]

RECURSIVE Sum(_)
Sum(s) ==
    IF s = <<>> THEN 0 ELSE Head(s) + Sum(Tail(s))

\* slice::binary_search: every answer the search may give for target x in the
\* sorted sequence s (positions count from 0): Ok(p) for any p holding x, since
\* which of several equal entries is found is unspecified, else Err(insertion
\* point)
BinarySearchOutcomes(s, x) ==
    IF \E p \in 1..Len(s) : s[p] = x
    THEN {[ok |-> TRUE, pos |-> p - 1] : p \in {q \in 1..Len(s) : s[q] = x}}
    ELSE {[ok |-> FALSE, pos |-> Cardinality({q \in 1..Len(s) : s[q] < x})]}

\* the searches of one build: one answer per target 0..Last(s)
RECURSIVE SearchChoices(_, _)
SearchChoices(s, x) ==
    IF x > s[Len(s)] THEN {<<>>}
    ELSE {<<o>> \o rest : o \in BinarySearchOutcomes(s, x), rest \in SearchChoices(s, x + 1)}

\* FromIterator<usize> for VecVecIndex: 0 followed by the running sums; search
\* is the binary search of the build
VecVecIndex_from_iter(rows, search) ==
    [offsets |-> [p \in 1..(Len(rows) + 1) |-> Sum(SubSeq(rows, 1, p - 1))],
     search  |-> search]

VecVecIndex_len(index) ==
    index.offsets[Len(index.offsets)]

VecVecIndex_outer_ix(index, i) ==
    LET r == index.search[i + 1]
    IN  IF r.ok THEN r.pos ELSE r.pos - 1

VecVecIndex_ix(index, i) ==
    LET j == VecVecIndex_outer_ix(index, i)
    IN  [outer |-> j, inner |-> i - index.offsets[j + 1]]

VecVecIndex_inv_ix(index, idx) ==
    index.offsets[idx.outer + 1] + idx.inner

\* unique_indices_sorted: the distinct indices in ascending order, and for each
\* position of the input the place of its index among them
RECURSIVE SortedSeq(_)
SortedSeq(S) ==
    IF S = {} THEN <<>>
    ELSE LET m == CHOOSE x \in S : \A y \in S : x <= y
         IN  <<m>> \o SortedSeq(S \ {m})

unique_indices_sorted(index, len) ==
    LET uniq == SortedSeq({index[k] : k \in 1..Len(index)})
    IN  [indices |-> uniq,
         mapping |-> [k \in 1..Len(index) |->
                        (CHOOSE j \in 1..Len(uniq) : uniq[j] = index[k]) - 1]]

\* group_by(outer) collected into a HashMap: for each key the last run of
\* consecutive entries with that key
GroupByOuter(pairs) ==
    LET keys == {pairs[k].outer : k \in 1..Len(pairs)}
        last_of(o) == CHOOSE e \in 1..Len(pairs) :
                         /\ pairs[e].outer = o
                         /\ \A k \in (e + 1)..Len(pairs) : pairs[k].outer # o
        first_of(o) == CHOOSE s \in 1..last_of(o) :
                         /\ \A k \in s..last_of(o) : pairs[k].outer = o
                         /\ (s = 1 \/ pairs[s - 1].outer # o)
    IN  [o \in keys |->
            IndexElem([j \in 1..(last_of(o) - first_of(o) + 1) |->
                          pairs[first_of(o) + j - 1].inner])]

\* mutant: the step of the caller's slice is dropped from the sub-slices
Mut_split_select_unit_step(index, info) ==
    IF info.tag = "Slice"
    THEN LET bounded == BoundedSlice(info, VecVecIndex_len(index))
             s == VecVecIndex_ix(index, bounded.start)
             e == VecVecIndex_ix(index, bounded.end)
         IN  [indices |->
                 IF s.outer = e.outer
                 THEN (s.outer :> SliceElem(s.inner, Some(e.inner), 1))
                 ELSE [o \in {s.outer, e.outer} \cup (s.outer + 1)..(e.outer - 1) |->
                         IF o = s.outer THEN SliceElem(s.inner, None, 1)
                         ELSE IF o = e.outer THEN SliceElem(0, Some(e.inner), 1)
                         ELSE SliceElem(0, None, 1)],
              mapping |-> None]
    ELSE LET u == unique_indices_sorted(info.idx, VecVecIndex_len(index))
         IN  [indices |-> GroupByOuter([k \in 1..Len(u.indices) |->
                                           VecVecIndex_ix(index, u.indices[k])]),
              mapping |-> Some(u.mapping)]

\* VecVecIndex::split_select: the per-source selections (a map from source
\* position) and, for an index list, the mapping back to the caller's order
VecVecIndex_split_select(index, info) ==
    IF info.tag = "Slice"
    THEN LET bounded == BoundedSlice(info, VecVecIndex_len(index))
             s == VecVecIndex_ix(index, bounded.start)
             e == VecVecIndex_ix(index, bounded.end)
         IN  [indices |->
                 IF s.outer = e.outer
                 THEN (s.outer :> SliceElem(s.inner, Some(e.inner), info.step))
                 ELSE [o \in {s.outer, e.outer} \cup (s.outer + 1)..(e.outer - 1) |->
                         IF o = s.outer THEN SliceElem(s.inner, None, info.step)
                         ELSE IF o = e.outer THEN SliceElem(0, Some(e.inner), info.step)
                         ELSE SliceElem(0, None, info.step)],
              mapping |-> None]
    ELSE LET u == unique_indices_sorted(info.idx, VecVecIndex_len(index))
         IN  [indices |-> GroupByOuter([k \in 1..Len(u.indices) |->
                                           VecVecIndex_ix(index, u.indices[k])]),
              mapping |-> Some(u.mapping)]

\* ------------------------------------------------- InnerStackedArrayElem
\* concat_array_data: the arrays stacked along axis 0; nothing can be built
\* from no array at all
RECURSIVE ConcatBuffers(_)
ConcatBuffers(arrays) ==
    IF arrays = <<>> THEN <<>> ELSE Head(arrays).data \o ConcatBuffers(Tail(arrays))

concat_array_data(arrays) ==
    IF arrays = <<>> THEN Err
    ELSE Ok([dtype |-> arrays[1].dtype,
             shape |-> [arrays[1].shape EXCEPT ![1] = Sum([k \in 1..Len(arrays) |-> arrays[k].shape[1]])],
             data  |-> ConcatBuffers(arrays)])

\* StackedArrayElem::new: the sources agree on dtype and on every axis but the
\* first; the index is built from their row counts
StackedArrayElem_new(elems, search) ==
    IF \E a, b \in 1..Len(elems) : elems[a].dtype # elems[b].dtype THEN Err
    ELSE IF \E a, b \in 1..Len(elems) : Tail(elems[a].shape) # Tail(elems[b].shape) THEN Err
    ELSE LET index == VecVecIndex_from_iter([k \in 1..Len(elems) |-> elems[k].shape[1]], search)
         IN  Ok([shape |-> [elems[1].shape EXCEPT ![1] = VecVecIndex_len(index)],
                 elems |-> elems,
                 index |-> index])

\* the sources are visited in order; one that has an entry in indices is
\* selected from with that entry followed by the caller's other axes, and the
\* first failing source ends the visit
RECURSIVE SelectSources(_, _, _, _, _)
SelectSources(elems, indices, rest, i, acc) ==
    IF i > Len(elems) THEN [elems |-> elems, arrays |-> Ok(acc)]
    ELSE IF (i - 1) \notin DOMAIN indices
         THEN SelectSources(elems, indices, rest, i + 1, acc)
         ELSE LET sub == <<indices[i - 1]>> \o rest
              IN  IF ~ValidSelection(sub, elems[i].shape)
                  THEN [elems |-> elems, arrays |-> Err]
                  ELSE LET r == InnerArrayElem_select(elems[i], sub)
                       IN  SelectSources([elems EXCEPT ![i] = r.elem], indices, rest,
                                         i + 1, Append(acc, Unwrap(r.ret)))

\* InnerStackedArrayElem::select
InnerStackedArrayElem_select(st, selection) ==
    LET sp  == VecVecIndex_split_select(st.index, selection[1])
        got == SelectSources(st.elems, sp.indices, Tail(selection), 1, <<>>)
        array == IF got.arrays.ok THEN concat_array_data(got.arrays.val) ELSE Err
    IN  [stack |-> [st EXCEPT !.elems = got.elems],
         ret   |-> IF ~array.ok THEN Err
                   ELSE IF IsSome(sp.mapping)
                        THEN Ok(ArraySelect(array.val,
                                   <<IndexElem(Unwrap(sp.mapping))>>
                                       \o [k \in 1..(Len(selection) - 1) |-> FullSlice]))
                        ELSE array]

\* ------------------------------------------------------------ SpecStack
\* the row counts of 1..MaxSources sources, each of 0..MaxSrcRows rows
RowCounts ==
    UNION {[1..k -> 0..MaxSrcRows] : k \in 1..MaxSources}

\* source k of a stack with these row counts: its values continue those of the
\* sources before it, so that the concatenation is MkValue(_, <<total, _>>, 0)
SourceValue(rows, k) ==
    MkValue("Array(i32)", <<rows[k], MaxCols>>, Sum(SubSeq(rows, 1, k - 1)) * MaxCols)

\* the selections of the other axis that accompany the axis-0 selection
SecondAxisSels ==
    {FullSlice, SliceElem(1, None, 1)}

InitStack ==
    /\ \E rows \in RowCounts :
          \E search \in SearchChoices(VecVecIndex_from_iter(rows, <<>>).offsets, 0) :
             \E s1 \in AxisSels(Sum(rows)), s2 \in SecondAxisSels :
                /\ s1.tag = "Slice" => ValidSelection(<<s1>>, <<Sum(rows)>>)
                /\ input = [rows |-> rows, sel |-> <<s1, s2>>]
                /\ written = MkValue("Array(i32)", <<Sum(rows), MaxCols>>, 0)
                /\ stack = Some(StackedArrayElem_new(
                               [k \in 1..Len(rows) |-> ArrayElem_try_from(WriteData(SourceValue(rows, k)))],
                               search).val)
    /\ elem = ArrayElem_try_from(WriteData(MkValue("Array(i32)", <<0, MaxCols>>, 0)))
    /\ last = NoCall
    /\ pc = "stacked"
    /\ warm_overwrite = FALSE
    /\ adata = None
    /\ iter = None
    /\ yielded = <<>>
    /\ slot = None

stack_select ==
    /\ pc = "stacked"
    /\ \E r \in {InnerStackedArrayElem_select(Unwrap(stack), input.sel)} :
           /\ stack' = Some(r.stack)
           /\ last' = [op |-> "stack_select", arg |-> Some(input.sel), ret |-> r.ret]
    /\ pc' = "done"
    /\ UNCHANGED <<elem, written, warm_overwrite, input, adata, iter, yielded, slot>>

NextStack ==
    stack_select

SpecStack == InitStack /\ [][NextStack]_vars

WithinOneSource(index, b) ==
    \E j \in 1..(Len(index.offsets) - 1) :
        index.offsets[j] <= b.start /\ b.end <= index.offsets[j + 1]

\* the selections whose stacked result is the in-memory one: index lists,
\* slices of step 1, and slices of any step that stay within one source
SourceLocal(index, s) ==
    \/ s.tag = "Index"
    \/ s.step = 1
    \/ WithinOneSource(index, BoundedSlice(s, VecVecIndex_len(index)))

\* no source contributes a piece, or a source is asked for a row it lacks: the
\* index list is empty, an index is resolved to a zero-row source, or the slice
\* starts at the position after the last source
NoPiece(rows, index, s) ==
    IF s.tag = "Index"
    THEN \/ s.idx = <<>>
         \/ \E k \in 1..Len(s.idx) : rows[VecVecIndex_outer_ix(index, s.idx[k]) + 1] = 0
    ELSE VecVecIndex_outer_ix(index, s.start) = Len(rows)

C11_IndexOrder ==
    pc = "done" /\ last.op = "stack_select" /\ input.sel[1].tag = "Index"
        => LET L == input.sel[1].idx
           IN  /\ last.ret.ok
               /\ last.ret.val.shape[1] = Len(L)
               /\ \A k \in 1..Len(L) :
                     ArraySelect(last.ret.val, <<IndexElem(<<k - 1>>)>>)
                        = ArraySelect(written, <<IndexElem(<<L[k]>>), input.sel[2]>>)

\* C12: ix and inv_ix are mutual inverses, inv_ix(ix(i)) = i for every global
\* row i and ix(inv_ix((o, j))) = (o, j) for every row j of every source o, and
\* outer_ix never decreases as i grows.
C12_IndexLaw ==
    IsSome(stack)
        => LET index == Unwrap(stack).index
               total == VecVecIndex_len(index)
           IN  /\ \A i \in 0..(total - 1) :
                     VecVecIndex_inv_ix(index, VecVecIndex_ix(index, i)) = i
               /\ \A o \in 1..Len(input.rows) : \A j \in 0..(input.rows[o] - 1) :
                     VecVecIndex_ix(index, VecVecIndex_inv_ix(index, [outer |-> o - 1, inner |-> j]))
                        = [outer |-> o - 1, inner |-> j]
               /\ \A i, i2 \in 0..(total - 1) :
                     i <= i2 => VecVecIndex_outer_ix(index, i) <= VecVecIndex_outer_ix(index, i2)

\* C13: for every global row i, outer_ix(i) is the greatest position j of the
\* prefix sums with prefix[j] <= i, it names an existing source, and the local
\* row i - prefix[j] exists in that source.
C13_GreatestBoundary ==
    IsSome(stack)
        => LET index == Unwrap(stack).index
           IN  \A i \in 0..(VecVecIndex_len(index) - 1) :
                  LET j == VecVecIndex_outer_ix(index, i)
                  IN  /\ index.offsets[j + 1] <= i
                      /\ \A q \in 1..Len(index.offsets) : index.offsets[q] <= i => q - 1 <= j
                      /\ j < Len(input.rows)
                      /\ VecVecIndex_ix(index, i).inner < input.rows[j + 1]

\* -------------------------------------------------------------- SpecPar
\* The sequential and the parallel paths of a stack: select / data visit the
\* sources in order; par_select / par_data run one task per source, the tasks
\* complete in any order, and the results are collected by source position.
\* data and par_data take no selection: they run from the inputs whose
\* selection is full.

\* InnerStackedArrayElem::data: the data of every source, in order, stacked
RECURSIVE DataSources(_, _, _)
DataSources(elems, i, acc) ==
    IF i > Len(elems) THEN [elems |-> elems, arrays |-> acc]
    ELSE LET r == InnerArrayElem_data(elems[i])
         IN  DataSources([elems EXCEPT ![i] = r.elem], i + 1, Append(acc, Unwrap(r.ret)))

InnerStackedArrayElem_data(st) ==
    LET got == DataSources(st.elems, 1, <<>>)
    IN  [stack |-> [st EXCEPT !.elems = got.elems],
         ret   |-> concat_array_data(got.arrays)]

\* the closure par_select / par_data runs on source i: no item for a source
\* without an entry in indices
ParTask(st, op, selection, i) ==
    IF op = "par_data"
    THEN LET r == InnerArrayElem_data(st.elems[i])
         IN  [elem |-> r.elem, item |-> Some(Ok(Unwrap(r.ret)))]
    ELSE LET sp == VecVecIndex_split_select(st.index, selection[1])
         IN  IF (i - 1) \notin DOMAIN sp.indices
             THEN [elem |-> st.elems[i], item |-> None]
             ELSE LET sub == <<sp.indices[i - 1]>> \o Tail(selection)
                  IN  IF ~ValidSelection(sub, st.elems[i].shape)
                      THEN [elem |-> st.elems[i], item |-> Some(Err)]
                      ELSE LET r == InnerArrayElem_select(st.elems[i], sub)
                           IN  [elem |-> r.elem, item |-> Some(Ok(Unwrap(r.ret)))]

\* the items of the positions listed in order, those without an item skipped
RECURSIVE ItemsInOrder(_, _)
ItemsInOrder(items, order) ==
    IF order = <<>> THEN <<>>
    ELSE (IF IsSome(items[Head(order)]) THEN <<Unwrap(items[Head(order)])>> ELSE <<>>)
            \o ItemsInOrder(items, Tail(order))

\* mutant: the result of the task that completed first is collected first
Mut_collect_completion_order(items, first) ==
    LET n   == Len(items)
        ord == IF IsSome(first)
               THEN <<Unwrap(first)>> \o SelectSeq([k \in 1..n |-> k], LAMBDA k : k # Unwrap(first))
               ELSE [k \in 1..n |-> k]
        got == ItemsInOrder(items, ord)
    IN  IF \E k \in 1..Len(got) : ~got[k].ok THEN Err
        ELSE concat_array_data([k \in 1..Len(got) |-> got[k].val])

\* collect::<Result<Vec<_>>>() of the parallel iterator, then concat_array_data:
\* the items by source position whichever task completed first, an Err if any
\* task failed
ParCollect(items, first) ==
    LET got == ItemsInOrder(items, [k \in 1..Len(items) |-> k])
    IN  IF \E k \in 1..Len(got) : ~got[k].ok THEN Err
        ELSE concat_array_data([k \in 1..Len(got) |-> got[k].val])

\* the end of par_select / par_data: par_select re-selects by the mapping
\* alone, a selection of one axis
ParFinish(st, op, selection, items, first) ==
    LET array == ParCollect(items, first)
        sp    == VecVecIndex_split_select(st.index, selection[1])
    IN  IF op = "par_data" \/ ~array.ok \/ ~IsSome(sp.mapping) THEN array
        ELSE Ok(ArraySelect(array.val, <<IndexElem(Unwrap(sp.mapping))>>))

\* the shapes of a source behind its rows: arrays of 1, 2 and 3 axes
TailShapes ==
    {<<>>, <<MaxCols>>, <<MaxCols, MaxCols>>}

\* source k of a stack of arrays with this tail shape; the concatenation is
\* MkValue(_, <<total>> \o tail, 0)
SourceOf(rows, tail, k) ==
    MkValue("Array(i32)", <<rows[k]>> \o tail, Sum(SubSeq(rows, 1, k - 1)) * Prod(tail))

StackOf(rows, tail, search) ==
    StackedArrayElem_new(
        [k \in 1..Len(rows) |-> ArrayElem_try_from(WriteData(SourceOf(rows, tail, k)))],
        search).val

\* axis-0 selections of a stack of n rows: slices forwards, stepped, backwards
\* and inner, and index lists in reverse order and with a repeated row
ParAxisSels(n) ==
    {FullSlice, SliceElem(0, None, 2), SliceElem(0, Some(n), -1), SliceElem(1, Some(n - 1), 1),
     IndexElem(<<>>), IndexElem([k \in 1..n |-> n - k]), IndexElem(<<n - 1, 0, n - 1>>)}

\* selections of the remaining axes
ParTailSels(tail) ==
    IF tail = <<>> THEN {<<>>}
    ELSE IF Len(tail) = 1 THEN {<<FullSlice>>, <<IndexElem(<<1, 0>>)>>}
    ELSE {<<SliceElem(1, None, 1), IndexElem(<<1, 0>>)>>, <<FullSlice, FullSlice>>}

InitPar ==
    /\ \E rows \in RowCounts, tail \in TailShapes :
          \E search \in SearchChoices(VecVecIndex_from_iter(rows, <<>>).offsets, 0) :
             \E s1 \in ParAxisSels(Sum(rows)), rest \in ParTailSels(tail) :
                /\ s1.tag = "Slice" => ValidSelection(<<s1>>, <<Sum(rows)>>)
                /\ s1.tag = "Index" => \A k \in 1..Len(s1.idx) : s1.idx[k] >= 0
                /\ input = [rows |-> rows, tail |-> tail, search |-> search, sel |-> <<s1>> \o rest]
                /\ written = MkValue("Array(i32)", <<Sum(rows)>> \o tail, 0)
                /\ stack = Some(StackOf(rows, tail, search))
    /\ elem = ArrayElem_try_from(WriteData(MkValue("Array(i32)", <<0, MaxCols>>, 0)))
    /\ last = NoCall
    /\ pc = "stacked"
    /\ warm_overwrite = FALSE
    /\ adata = None
    /\ iter = None
    /\ yielded = <<>>
    /\ slot = None

stack_data ==
    /\ pc = "stacked"
    /\ AllFull(input.sel)
    /\ \E r \in {InnerStackedArrayElem_data(Unwrap(stack))} :
           /\ stack' = Some(r.stack)
           /\ last' = [op |-> "stack_data", arg |-> None, ret |-> r.ret]
    /\ pc' = "done"
    /\ UNCHANGED <<elem, written, warm_overwrite, input, adata, iter, yielded, slot>>

\* par_select / par_data entered: no task has run
par_begin ==
    /\ pc = "stacked"
    /\ \E op \in {"par_select", "par_data"} :
          /\ op = "par_data" => AllFull(input.sel)
          /\ iter' = Some([op |-> op, ran |-> {}, first |-> None,
                           items |-> [k \in 1..Len(Unwrap(stack).elems) |-> None]])
    /\ pc' = "par"
    /\ UNCHANGED <<elem, last, written, warm_overwrite, input, adata, yielded, stack, slot>>

\* the task of one source completes, in any order among the sources
par_task ==
    /\ pc = "par"
    /\ \E i \in 1..Len(Unwrap(stack).elems) :
          /\ i \notin Unwrap(iter).ran
          /\ \E r \in {ParTask(Unwrap(stack), Unwrap(iter).op, input.sel, i)} :
                /\ stack' = Some([Unwrap(stack) EXCEPT !.elems[i] = r.elem])
                /\ iter' = Some([Unwrap(iter) EXCEPT !.ran = @ \cup {i},
                                                     !.first = IF @ = None THEN Some(i) ELSE @,
                                                     !.items[i] = r.item])
    /\ UNCHANGED <<elem, last, written, warm_overwrite, input, pc, adata, yielded, slot>>

\* every task has completed: the results are collected and returned
par_collect ==
    /\ pc = "par"
    /\ Unwrap(iter).ran = 1..Len(Unwrap(stack).elems)
    /\ last' = [op |-> Unwrap(iter).op, arg |-> Some(input.sel),
                ret |-> ParFinish(Unwrap(stack), Unwrap(iter).op, input.sel,
                                  Unwrap(iter).items, Unwrap(iter).first)]
    /\ pc' = "done"
    /\ UNCHANGED <<elem, written, warm_overwrite, input, adata, iter, yielded, stack, slot>>

NextPar ==
    \/ stack_select
    \/ stack_data
    \/ par_begin
    \/ par_task
    \/ par_collect

SpecPar == InitPar /\ [][NextPar]_vars

Threads == {"t1", "t2"}

\* two slots and a clone of the first
Handles == {"a", "a_clone", "b"}

SlotValues == {"x", "y"}

\* mutant: a clone gets a cell of its own
Mut_clone_own_cell(h) ==
    h

\* Clone for Slot: the clone shares the Arc, so the cell, of the original
CellOf(h) ==
    IF h = "a_clone" THEN "a" ELSE h

SlotOps == {"is_empty", "lock", "inner", "insert", "extract", "drop", "swap"}

IdleThread == [op |-> "none", h |-> "a", other |-> "a", x |-> "x", stage |-> "idle"]

\* Slot::is_empty as a handle sees it when no call is in progress
Slot_is_empty(cells, h) ==
    cells[CellOf(h)].content = None

\* Slot::insert under the lock: mem::replace(_, Some(data))
Slot_insert(content, x) ==
    [content |-> Some(x), ret |-> content]

\* Slot::extract under the lock: mem::replace(_, None)
Slot_extract(content) ==
    [content |-> None, ret |-> content]

\* mutant: dereferencing an empty slot yields a recoverable None
Mut_deref_recovers(content) ==
    IF content = None THEN [panic |-> FALSE, ret |-> None]
    ELSE [panic |-> FALSE, ret |-> content]

\* Deref for Inner: the value, or panic!("accessing an empty slot")
Inner_deref(content) ==
    IF content = None THEN [panic |-> TRUE, ret |-> None]
    ELSE [panic |-> FALSE, ret |-> content]

InitSlot ==
    /\ slot = Some([c \in Handles |-> [content |-> Some("x"), owner |-> None]])
    /\ pc = [t \in Threads |-> IdleThread]
    /\ last = [op |-> "new", t |-> "t1", h |-> "a", other |-> "a", ret |-> None,
               empty |-> FALSE, panic |-> FALSE, pre |-> None, pre_other |-> None]
    /\ elem = None
    /\ written = None
    /\ warm_overwrite = FALSE
    /\ input = None
    /\ adata = None
    /\ iter = None
    /\ yielded = <<>>
    /\ stack = None

slotFrame == <<elem, written, warm_overwrite, input, adata, iter, yielded, stack>>

Cells == Unwrap(slot)

\* the record of a completed call: ret is the Option<T> it returned, empty the
\* bool is_empty returned
SlotLog(t, ret, empty, panic) ==
    [op |-> pc[t].op, t |-> t, h |-> pc[t].h, other |-> pc[t].other, ret |-> ret,
     empty |-> empty, panic |-> panic, pre |-> Cells[CellOf(pc[t].h)].content,
     pre_other |-> Cells[CellOf(pc[t].other)].content]

\* a thread starts a call on a handle
slot_call(t) ==
    /\ pc[t].stage = "idle"
    /\ \E op \in SlotOps, h \in Handles :
          \E other \in (IF op = "swap" THEN Handles ELSE {h}),
             x \in (IF op = "insert" THEN SlotValues ELSE {"x"}) :
                pc' = [pc EXCEPT ![t] = [op |-> op, h |-> h, other |-> other, x |-> x,
                                         stage |-> "want"]]
    /\ UNCHANGED <<last, slot, slotFrame>>

\* self.0.lock() succeeds: is_empty, insert, extract and drop act and unlock;
\* lock and inner return the guard; swap goes on to the lock of the other slot
slot_lock(t) ==
    /\ pc[t].stage = "want"
    /\ Cells[CellOf(pc[t].h)].owner = None
    /\ LET c   == CellOf(pc[t].h)
           cur == Cells[c].content
       IN  CASE pc[t].op = "is_empty" ->
                  /\ last' = SlotLog(t, None, cur = None, FALSE)
                  /\ pc' = [pc EXCEPT ![t] = IdleThread]
                  /\ UNCHANGED slot
             [] pc[t].op = "insert" ->
                  /\ slot' = Some([Cells EXCEPT ![c].content = Slot_insert(cur, pc[t].x).content])
                  /\ last' = SlotLog(t, Slot_insert(cur, pc[t].x).ret, FALSE, FALSE)
                  /\ pc' = [pc EXCEPT ![t] = IdleThread]
             [] pc[t].op \in {"extract", "drop"} ->
                  /\ slot' = Some([Cells EXCEPT ![c].content = Slot_extract(cur).content])
                  /\ last' = SlotLog(t, IF pc[t].op = "drop" THEN None ELSE Slot_extract(cur).ret,
                                   FALSE, FALSE)
                  /\ pc' = [pc EXCEPT ![t] = IdleThread]
             [] pc[t].op \in {"lock", "inner"} ->
                  /\ slot' = Some([Cells EXCEPT ![c].owner = Some(t)])
                  /\ pc' = [pc EXCEPT ![t].stage = "held"]
                  /\ UNCHANGED last
             [] pc[t].op = "swap" ->
                  /\ slot' = Some([Cells EXCEPT ![c].owner = Some(t)])
                  /\ pc' = [pc EXCEPT ![t].stage = "want2"]
                  /\ UNCHANGED last
    /\ UNCHANGED slotFrame

\* swap: other.0.lock() succeeds, the contents are exchanged, both unlock
slot_swap_second(t) ==
    /\ pc[t].stage = "want2"
    /\ Cells[CellOf(pc[t].other)].owner = None
    /\ LET c == CellOf(pc[t].h)
           d == CellOf(pc[t].other)
       IN  slot' = Some([Cells EXCEPT ![c] = [content |-> Cells[d].content, owner |-> None],
                                      ![d] = [content |-> Cells[c].content, owner |-> None]])
    /\ last' = SlotLog(t, None, FALSE, FALSE)
    /\ pc' = [pc EXCEPT ![t] = IdleThread]
    /\ UNCHANGED slotFrame

\* the caller uses the guard and drops it: the guard of lock() is read, the
\* guard of inner() is dereferenced; a panic unwinds and drops the guard too
slot_guard_use(t) ==
    /\ pc[t].stage = "held"
    /\ LET c == CellOf(pc[t].h)
           r == IF pc[t].op = "inner" THEN Inner_deref(Cells[c].content)
                ELSE [panic |-> FALSE, ret |-> Cells[c].content]
       IN  /\ slot' = Some([Cells EXCEPT ![c].owner = None])
           /\ last' = SlotLog(t, r.ret, FALSE, r.panic)
           /\ pc' = [pc EXCEPT ![t] = IF r.panic THEN [IdleThread EXCEPT !.stage = "panicked"]
                                      ELSE IdleThread]
    /\ UNCHANGED slotFrame

NextSlot ==
    \E t \in Threads :
        \/ slot_call(t)
        \/ slot_lock(t)
        \/ slot_swap_second(t)
        \/ slot_guard_use(t)

SpecSlot == InitSlot /\ [][NextSlot]_vars

\* the mutex hands the lock to every waiter in the end, and a caller holding a
\* guard drops it
SpecSlotLive ==
    /\ SpecSlot
    /\ \A t \in Threads :
          /\ SF_vars(slot_lock(t))
          /\ SF_vars(slot_swap_second(t))
          /\ WF_vars(slot_guard_use(t))

\* the handles that are clones of one slot
ClonesOf(h) ==
    IF h \in {"a", "a_clone"} THEN {"a", "a_clone"} ELSE {h}

\* C15: the clones of a slot observe one content: after extract or drop through
\* any clone every clone is empty, after insert through any clone none is and
\* insert has returned the previous content; extract returns the content and
\* leaves none, so a value is handed out once; swap exchanges the contents of
\* two slots.
C15_SharedContent ==
    IsSome(slot) =>
        /\ last.op \in {"extract", "drop"}
              => \A h \in ClonesOf(last.h) : Slot_is_empty(Cells, h)
        /\ last.op = "extract" => last.ret = last.pre
        /\ last.op = "insert"
              => /\ \A h \in ClonesOf(last.h) : ~Slot_is_empty(Cells, h)
                 /\ last.ret = last.pre
        /\ last.op = "is_empty"
              => \A h \in ClonesOf(last.h) : last.empty = Slot_is_empty(Cells, h)
        /\ last.op = "swap"
              => /\ Cells[CellOf(last.h)].content = last.pre_other
                 /\ Cells[CellOf(last.other)].content = last.pre

\* a second extract, through the clone, of a slot already extracted from
C15_Witness ==
    /\ IsSome(slot)
    /\ last.op = "extract" /\ last.h = "a_clone"
    /\ last.pre = None /\ last.ret = None
    /\ Slot_is_empty(Cells, "a")
    /\ Cells["b"].content = Some("y")

\* C16: under every interleaving each call on a slot eventually returns.
C16_CallsReturn ==
    \A t \in Threads :
        (pc[t].stage \in {"want", "want2", "held"}) ~> (pc[t].stage \in {"idle", "panicked"})

\* C17: dereferencing inner() of an empty slot always panics and yields no
\* value, of a full slot it yields the value; is_empty, lock, extract, drop
\* and insert complete normally on an empty slot, with a well-formed result.
C17_EmptyDerefFatal ==
    IsSome(slot) =>
        /\ last.op = "inner"
              => /\ last.panic <=> last.pre = None
                 /\ last.panic => last.ret = None /\ pc[last.t].stage = "panicked"
                 /\ ~last.panic => last.ret = last.pre /\ IsSome(last.ret)
        /\ last.op \in {"is_empty", "lock", "extract", "drop", "insert", "swap"}
              => ~last.panic
        /\ last.pre = None =>
              /\ last.op = "is_empty" => last.empty
              /\ last.op \in {"lock", "extract", "drop", "insert"} => last.ret = None

\* inner() of a slot emptied through its clone is dereferenced
C17_Witness ==
    /\ IsSome(slot)
    /\ last.op = "inner" /\ last.h = "a"
    /\ last.panic /\ last.pre = None
    /\ pc[last.t].stage = "panicked"

\* ------------------------------------------------- InnerDataFrameElem
\* A table is its height, its ordered column names and a stamp that tells two
\* tables of one shape apart; a table without columns has no rows.  A row-label
\* index is the sequence of its labels.  The container holds the table and the
\* index side by side.
MaxHeight == 2

RowLabels == {"r", "s"}

RECURSIVE SeqsUpTo(_, _)
SeqsUpTo(S, n) ==
    IF n = 0 THEN {<<>>}
    ELSE LET shorter == SeqsUpTo(S, n - 1)
         IN  shorter \cup {Append(q, x) : q \in {r \in shorter : Len(r) = n - 1}, x \in S}

FrameIndexes == SeqsUpTo(RowLabels, MaxHeight)

Frames ==
    {[height |-> 0, cols |-> c, v |-> 0] : c \in {<<>>, <<"a">>}}
        \cup {[height |-> h, cols |-> c, v |-> k] :
                 h \in 1..MaxHeight, c \in {<<"a">>, <<"a", "b">>}, k \in {0, 1}}

\* Result<()> of the table operations, with the message of the failure
FrameOk(e) == [elem |-> Some(e), ok |-> TRUE, err |-> ""]

FrameErr(e, msg) == [elem |-> e, ok |-> FALSE, err |-> msg]

InnerDataFrameElem_new(index, df) ==
    IF ~(df.height = 0 \/ Len(index) = df.height)
    THEN FrameErr(None, "cannot create dataframe element as lengths of index and dataframe differ")
    ELSE FrameOk([element |-> None,
                  container |-> [table |-> df, index |-> index],
                  column_names |-> df.cols,
                  index |-> index])

InnerDataFrameElem_height(e) == Len(e.index)

InnerDataFrameElem_set_index(e, index) ==
    IF Len(e.index) # Len(index)
    THEN FrameErr(Some(e), "cannot change the index as the lengths differ")
    ELSE FrameOk([e EXCEPT !.index = index, !.container.index = index])

\* the table, from the cache or read from the container and cached
InnerDataFrameElem_data(e) ==
    IF IsSome(e.element) THEN [elem |-> e, ret |-> Unwrap(e.element)]
    ELSE [elem |-> [e EXCEPT !.element = Some(e.container.table)],
          ret |-> e.container.table]

\* mutant: the heights are not compared
Mut_frame_save_unchecked(e, df) ==
    LET e1 == [e EXCEPT !.container.table = df, !.column_names = df.cols]
    IN  FrameOk(IF IsSome(e1.element) THEN [e1 EXCEPT !.element = Some(df)] ELSE e1)

InnerDataFrameElem_save(e, df) ==
    IF ~(df.height = 0 \/ Len(e.index) = df.height)
    THEN FrameErr(Some(e), "cannot update dataframe as lengths differ")
    ELSE LET e1 == [e EXCEPT !.container.table = df, !.column_names = df.cols]
         IN  FrameOk(IF IsSome(e1.element) THEN [e1 EXCEPT !.element = Some(df)]
                     ELSE e1)

\* ------------------------------------------------------------- SpecFrame
\* One DataFrame element: created by new, then any sequence of save,
\* set_index and data.  last records the call, its argument, its result and
\* the element as it was before the call.
FrameLog(op, index, df, r) ==
    [op |-> op, index |-> index, df |-> df, ok |-> r.ok, err |-> r.err, pre |-> elem]

InitFrame ==
    /\ elem = None
    /\ last = [op |-> "none", index |-> <<>>, df |-> [height |-> 0, cols |-> <<>>, v |-> 0],
               ok |-> TRUE, err |-> "", pre |-> None]
    /\ written = None
    /\ warm_overwrite = FALSE
    /\ input = None
    /\ pc = "frame"
    /\ adata = None
    /\ iter = None
    /\ yielded = <<>>
    /\ stack = None
    /\ slot = None

frameRest == <<written, warm_overwrite, runVars>>

frame_new ==
    /\ pc = "frame"
    /\ elem = None
    /\ \E index \in FrameIndexes, df \in Frames :
        LET r == InnerDataFrameElem_new(index, df)
        IN  /\ elem' = r.elem
            /\ last' = FrameLog("new", index, df, r)
    /\ UNCHANGED frameRest

frame_save ==
    /\ pc = "frame"
    /\ IsSome(elem)
    /\ \E df \in Frames :
        LET r == InnerDataFrameElem_save(Unwrap(elem), df)
        IN  /\ elem' = r.elem
            /\ last' = FrameLog("save", Unwrap(elem).index, df, r)
    /\ UNCHANGED frameRest

frame_set_index ==
    /\ pc = "frame"
    /\ IsSome(elem)
    /\ \E index \in FrameIndexes :
        LET r == InnerDataFrameElem_set_index(Unwrap(elem), index)
        IN  /\ elem' = r.elem
            /\ last' = FrameLog("set_index", index, Unwrap(elem).container.table, r)
    /\ UNCHANGED frameRest

frame_data ==
    /\ pc = "frame"
    /\ IsSome(elem)
    /\ LET r == InnerDataFrameElem_data(Unwrap(elem))
       IN  /\ elem' = Some(r.elem)
           /\ last' = FrameLog("data", Unwrap(elem).index, r.ret, FrameOk(r.elem))
    /\ UNCHANGED frameRest

NextFrame ==
    \/ frame_new
    \/ frame_save
    \/ frame_set_index
    \/ frame_data

SpecFrame == InitFrame /\ [][NextFrame]_vars

\* C19: saving a non-empty table whose height differs from the length of the
\* index fails with the lengths-differ error and leaves the container, the
\* column names, the index and the cached table as they were.
C19_SaveMismatchFails ==
    (/\ last.op = "save"
     /\ last.df.height # 0
     /\ last.df.height # Len(Unwrap(last.pre).index))
        => /\ ~last.ok
           /\ last.err = "cannot update dataframe as lengths differ"
           /\ elem = last.pre

\* a table of one row has been refused by an element of two rows whose table
\* was cached
C19_Witness ==
    /\ last.op = "save"
    /\ ~last.ok
    /\ last.df.height = 1
    /\ IsSome(elem)
    /\ InnerDataFrameElem_height(Unwrap(elem)) = 2
    /\ IsSome(Unwrap(elem).element)
    /\ Unwrap(elem).container.table.height = 2
    /\ elem = last.pre

\* C20: once new has returned Ok, and after every save and set_index, the
\* length of the index equals the height of the table data() returns.
C20_IndexMatchesHeight ==
    IsSome(elem) =>
        InnerDataFrameElem_height(Unwrap(elem))
            = InnerDataFrameElem_data(Unwrap(elem)).ret.height

\* ------------------------------------------ CsrIterator (streamed CSR write)
\* A sparse row is a sequence of <<column, value>> pairs.  The three datasets
\* of the group (data, indices, indptr) carry the integer type they are stored
\* with; i32::MAX and the size of a write chunk are scaled down.
I32_MAX == 2

WriteChunk == 2

MaxCsrRows == 3

MaxNumCols == 3

\* the rows a stream is made of: empty, one entry, two entries in descending
\* column order, two entries of one column, an entry of the last column
CsrRowPool ==
    {<<>>, <<<<0, 1>>>>, <<<<1, 2>>, <<0, 1>>>>, <<<<0, 1>>, <<0, 2>>>>,
     <<<<MaxNumCols - 1, 1>>>>}

CsrRowsFor(m) ==
    {row \in CsrRowPool : \A k \in 1..Len(row) : row[k][1] < m}

\* usize -> i32 (try_into)
TryIntoI32(x) == IF x <= I32_MAX THEN Some(x) ELSE None

RECURSIVE FlattenRows(_)
FlattenRows(rows) ==
    IF rows = <<>> THEN <<>> ELSE Head(rows) \o FlattenRows(Tail(rows))

\* mutant: the running offset restarts with every chunk
RECURSIVE Mut_scan_restarts(_, _)
Mut_scan_restarts(rows, state) ==
    IF rows = <<>> THEN <<>>
    ELSE <<Len(Head(rows))>>
            \o [k \in 1..(Len(rows) - 1) |->
                    Mut_scan_restarts(Tail(rows), 0)[k] + Len(Head(rows))]

\* iterator.scan(0, |state, x| state + x.len()): the running number of stored
\* values after each row of the chunk, continuing from state
RECURSIVE CsrScan(_, _)
CsrScan(rows, state) ==
    IF rows = <<>> THEN <<>>
    ELSE <<state + Len(Head(rows))>> \o CsrScan(Tail(rows), state + Len(Head(rows)))

CsrWriter_new(rows, num_cols) ==
    [rest |-> rows, num_cols |-> num_cols, state |-> 0, indptr |-> <<0>>,
     indices |-> [ty |-> IF num_cols <= I32_MAX THEN "i32" ELSE "i64", vals |-> <<>>],
     data |-> <<>>, panic |-> FALSE]

\* one pass of the loop over iter.chunks(..): the row pointers of the chunk are
\* pushed, its entries flattened, converted and appended to indices and data
CsrWriter_chunk(w) ==
    LET n       == Min(WriteChunk, Len(w.rest))
        chunk   == SubSeq(w.rest, 1, n)
        offs    == CsrScan(chunk, w.state)
        entries == FlattenRows(chunk)
        fits    == w.indices.ty = "i64"
                      \/ \A k \in 1..Len(entries) : IsSome(TryIntoI32(entries[k][1]))
    IN  IF ~fits THEN [w EXCEPT !.panic = TRUE]
        ELSE [w EXCEPT !.rest = SubSeq(w.rest, n + 1, Len(w.rest)),
                       !.state = IF n = 0 THEN w.state ELSE offs[n],
                       !.indptr = w.indptr \o offs,
                       !.indices.vals = w.indices.vals
                                           \o [k \in 1..Len(entries) |-> entries[k][1]],
                       !.data = w.data \o [k \in 1..Len(entries) |-> entries[k][2]]]

\* mutant: the row pointers are always stored as i32, wrapping around
Mut_finish_always_i32(w) ==
    [container |-> [encoding_type |-> "csr_matrix",
                    shape |-> <<Len(w.indptr) - 1, w.num_cols>>,
                    data |-> w.data,
                    indices |-> w.indices,
                    indptr |-> [ty |-> "i32",
                                vals |-> [k \in 1..Len(w.indptr) |->
                                             w.indptr[k] % (I32_MAX + 1)]]],
     nrows |-> Len(w.indptr) - 1]

\* after the loop: the shape attribute and the indptr dataset, as i32 when
\* every entry converts and as i64 otherwise; returns (container, num_rows)
CsrWriter_finish(w) ==
    LET num_rows == Len(w.indptr) - 1
        small    == w.indices.ty = "i32"
                       /\ \A k \in 1..Len(w.indptr) : IsSome(TryIntoI32(w.indptr[k]))
    IN  [container |-> [encoding_type |-> "csr_matrix",
                        shape |-> <<num_rows, w.num_cols>>,
                        data |-> w.data,
                        indices |-> w.indices,
                        indptr |-> [ty |-> IF small THEN "i32" ELSE "i64",
                                    vals |-> w.indptr]],
         nrows |-> num_rows]

RECURSIVE CsrWriter_run(_)
CsrWriter_run(w) ==
    IF w.panic \/ w.rest = <<>> THEN w ELSE CsrWriter_run(CsrWriter_chunk(w))

\* CsrIterator::write as a whole
CsrIterator_write(rows, num_cols) ==
    CsrWriter_finish(CsrWriter_run(CsrWriter_new(rows, num_cols)))

\* CsrRowIterator::Disk: (data, indices, indptr, current_row)
CsrRowIterator_disk(container) ==
    [data |-> container.data, indices |-> container.indices.vals,
     indptr |-> container.indptr.vals, current_row |-> 0]

CsrRowIterator_next(it) ==
    IF it.current_row >= Len(it.indptr) - 1 THEN [it |-> it, ret |-> None]
    ELSE LET i == it.indptr[it.current_row + 1]
             j == it.indptr[it.current_row + 2]
         IN  [it |-> [it EXCEPT !.current_row = it.current_row + 1],
              ret |-> Some([k \in 1..(j - i) |->
                               <<it.indices[i + k], it.data[i + k]>>])]

\* --------------------------------------------------------------- SpecCsr
\* A stream of rows and a declared column count are drawn; the stream is
\* written chunk by chunk, the container finalized, and the rows read back.
InitCsr ==
    /\ \E m \in 0..MaxNumCols :
         \E n \in 0..MaxCsrRows :
           \E rows \in [1..n -> CsrRowsFor(m)] :
              /\ input = [rows |-> rows, num_cols |-> m]
              /\ iter = Some(CsrWriter_new(rows, m))
    /\ pc = "csr_write"
    /\ adata = None
    /\ yielded = <<>>
    /\ elem = None
    /\ last = None
    /\ written = None
    /\ warm_overwrite = FALSE
    /\ stack = None
    /\ slot = None

csrFrame == <<elem, last, written, warm_overwrite, input, stack, slot>>

csr_write_chunk ==
    /\ pc = "csr_write"
    /\ Unwrap(iter).rest # <<>>
    /\ LET w == CsrWriter_chunk(Unwrap(iter))
       IN  /\ iter' = Some(w)
           /\ pc' = IF w.panic THEN "panicked" ELSE "csr_write"
    /\ UNCHANGED <<adata, yielded, csrFrame>>

csr_write_finish ==
    /\ pc = "csr_write"
    /\ Unwrap(iter).rest = <<>>
    /\ LET r == CsrWriter_finish(Unwrap(iter))
       IN  /\ adata' = Some(r)
           /\ iter' = Some(CsrRowIterator_disk(r.container))
    /\ pc' = "csr_read"
    /\ UNCHANGED <<yielded, csrFrame>>

csr_next ==
    /\ pc = "csr_read"
    /\ LET r == CsrRowIterator_next(Unwrap(iter))
       IN  /\ iter' = Some(r.it)
           /\ IF IsSome(r.ret)
              THEN yielded' = Append(yielded, Unwrap(r.ret)) /\ pc' = "csr_read"
              ELSE yielded' = yielded /\ pc' = "done"
    /\ UNCHANGED <<adata, csrFrame>>

NextCsr ==
    \/ csr_write_chunk
    \/ csr_write_finish
    \/ csr_next

SpecCsr == InitCsr /\ [][NextCsr]_vars

\* C22: the container written from a stream of rows has the shape (number of
\* rows, declared column count), a row-pointer array of rows + 1 non-decreasing
\* entries from 0 to the number of stored values, and reading it back row by
\* row yields the rows supplied, each with its pairs in the order given.
C22_StreamedWrite ==
    /\ pc # "panicked"
    /\ pc \in {"csr_read", "done"} =>
          LET c      == Unwrap(adata).container
              indptr == c.indptr.vals
              n      == Len(input.rows)
          IN  /\ c.shape = <<n, input.num_cols>>
              /\ Unwrap(adata).nrows = n
              /\ Len(indptr) = n + 1
              /\ indptr[1] = 0
              /\ indptr[n + 1] = Len(c.data)
              /\ Len(c.indices.vals) = Len(c.data)
              /\ \A k \in 1..n : indptr[k] <= indptr[k + 1]
              /\ yielded = SubSeq(input.rows, 1, Len(yielded))
    /\ pc = "done" => yielded = input.rows

\* more rows than one write chunk holds, one of them with its columns in
\* descending order, row pointers too large for i32, all read back
C22_Witness ==
    /\ pc = "done"
    /\ Len(input.rows) > WriteChunk
    /\ input.rows[Len(input.rows)] = <<<<1, 2>>, <<0, 1>>>>
    /\ input.rows[1] # <<>>
    /\ Unwrap(adata).container.indptr.ty = "i64"
    /\ Unwrap(adata).container.indices.ty = "i32"
    /\ yielded = input.rows


\* ------------------------------------- AnnData assembled from row iterators
\* The dataset keeps n_obs, n_vars, the element of X and the elements of obsm
\* in memory, and the groups X and obsm/<key> in its file.  A call ends with
\* Ok, with an error returned to the caller, or with a panic (assert!); the
\* fields assigned and the groups written before a panic stay as they are.
MaxObs == 2

MaxVars == 2

ObsmKeys == {"k"}

\* streams of 0..MaxObs rows for a declared column count m: every row has one
\* entry, or none when there is no column
AssembleStreams(m) ==
    {[k \in 1..n |-> IF m > 0 THEN <<<<0, 1>>>> ELSE <<>>] : n \in 0..MaxObs}

\* MatrixElem::new(container)
MatrixElem_new(container) ==
    [container |-> container, nrows |-> container.shape[1], ncols |-> container.shape[2]]

AnnData_new_sized(n_obs, n_vars) ==
    [n_obs |-> n_obs, n_vars |-> n_vars, x |-> None,
     obsm |-> [k \in ObsmKeys |-> None],
     file |-> [X |-> None, obsm |-> [k \in ObsmKeys |-> None]]]

AsmResult(a, status) == [adata |-> a, status |-> status]

AnnData_set_x_from_row_iter(a, rows, num_cols) ==
    LET a1 == IF a.n_vars = 0 THEN [a EXCEPT !.n_vars = num_cols] ELSE a
    IN  IF a1.n_vars # num_cols THEN AsmResult(a1, "panic")
        ELSE IF IsSome(a1.x) /\ ~IsSome(a1.file.X) THEN AsmResult(a1, "err")
        ELSE IF ~IsSome(a1.x) /\ IsSome(a1.file.X) THEN AsmResult(a1, "err")
        ELSE LET w  == CsrIterator_write(rows, num_cols)
                 a2 == [a1 EXCEPT !.file.X = Some(w.container)]
                 a3 == IF a2.n_obs = 0 THEN [a2 EXCEPT !.n_obs = w.nrows] ELSE a2
             IN  IF a3.n_obs # w.nrows THEN AsmResult(a3, "panic")
                 ELSE AsmResult([a3 EXCEPT !.x = Some(MatrixElem_new(w.container))], "ok")

AnnData_add_obsm_from_row_iter(a, key, rows, num_cols) ==
    IF ~IsSome(a.obsm[key]) /\ IsSome(a.file.obsm[key]) THEN AsmResult(a, "err")
    ELSE IF IsSome(a.obsm[key]) /\ ~IsSome(a.file.obsm[key]) THEN AsmResult(a, "err")
    ELSE LET w  == CsrIterator_write(rows, num_cols)
             a1 == [a EXCEPT !.file.obsm[key] = Some(w.container)]
             a2 == IF a1.n_obs = 0 THEN [a1 EXCEPT !.n_obs = w.nrows] ELSE a1
         IN  IF a2.n_obs # w.nrows THEN AsmResult(a2, "panic")
             ELSE AsmResult([a2 EXCEPT !.obsm[key] = Some(MatrixElem_new(w.container))],
                            "ok")

\* ----------------------------------------------------------- SpecAssemble
\* A dataset created with some n_obs and n_vars; any sequence of
\* set_x_from_row_iter and add_obsm_from_row_iter calls.
AsmLog(op, key, rows, num_cols, r) ==
    [op |-> op, key |-> key, nrows |-> Len(rows), num_cols |-> num_cols,
     status |-> r.status, pre |-> Unwrap(adata)]

InitAssemble ==
    /\ \E n_obs \in 0..MaxObs, n_vars \in 0..MaxVars :
          adata = Some(AnnData_new_sized(n_obs, n_vars))
    /\ last = [op |-> "new", key |-> "k", nrows |-> 0, num_cols |-> 0,
               status |-> "ok", pre |-> AnnData_new_sized(0, 0)]
    /\ pc = "assemble"
    /\ input = None
    /\ iter = None
    /\ yielded = <<>>
    /\ elem = None
    /\ written = None
    /\ warm_overwrite = FALSE
    /\ stack = None
    /\ slot = None

asmFrame == <<elem, written, warm_overwrite, input, pc, iter, yielded, stack, slot>>

set_x_from_row_iter ==
    /\ pc = "assemble"
    /\ \E m \in 0..MaxVars :
         \E rows \in AssembleStreams(m) :
           \E r \in {AnnData_set_x_from_row_iter(Unwrap(adata), rows, m)} :
              /\ adata' = Some(r.adata)
              /\ last' = AsmLog("set_x", "k", rows, m, r)
    /\ UNCHANGED asmFrame

add_obsm_from_row_iter ==
    /\ pc = "assemble"
    /\ \E key \in ObsmKeys, m \in 0..MaxVars :
         \E rows \in AssembleStreams(m) :
           \E r \in {AnnData_add_obsm_from_row_iter(Unwrap(adata), key, rows, m)} :
              /\ adata' = Some(r.adata)
              /\ last' = AsmLog("add_obsm", key, rows, m, r)
    /\ UNCHANGED asmFrame

NextAssemble ==
    \/ set_x_from_row_iter
    \/ add_obsm_from_row_iter

SpecAssemble == InitAssemble /\ [][NextAssemble]_vars

\* C21: adding an obsm entry whose row count differs from n_obs returns an
\* error and leaves n_obs and the obsm collection as they were, also when
\* n_obs is 0 because X was set to a matrix without rows.
C21_ObsmRowMismatch ==
    (last.op = "add_obsm" /\ last.nrows # last.pre.n_obs)
        => /\ last.status = "err"
           /\ Unwrap(adata).n_obs = last.pre.n_obs
           /\ Unwrap(adata).obsm = last.pre.obsm

\* C23: a streamed write of X whose declared column count differs from the
\* n_vars already known (0 included) returns an error, and the stored X and
\* n_vars stay as they were.
C23_ColumnMismatch ==
    (/\ last.op = "set_x"
     /\ last.num_cols # last.pre.n_vars
     /\ last.pre.n_vars # 0 \/ IsSome(last.pre.x))
        => /\ last.status = "err"
           /\ Unwrap(adata).x = last.pre.x
           /\ Unwrap(adata).file.X = last.pre.file.X
           /\ Unwrap(adata).n_vars = last.pre.n_vars


\* ----------------------------------------------------- rstack of CSR pieces
\* A CsrMatrix is its shape and the three CSR arrays.
MaxPieces == 3

\* CsrMatrix::try_from_csr_data: Some(matrix) when the arrays describe a valid
\* CSR pattern (offsets from 0 to nnz, non-decreasing, one per row plus one;
\* column indices below num_cols and strictly increasing within a row)
TryFromCsrData(num_rows, num_cols, row_offsets, col_indices, values) ==
    IF /\ Len(row_offsets) = num_rows + 1
       /\ Len(col_indices) = Len(values)
       /\ row_offsets[1] = 0
       /\ row_offsets[num_rows + 1] = Len(col_indices)
       /\ \A r \in 1..num_rows : row_offsets[r] <= row_offsets[r + 1]
       /\ \A k \in 1..Len(col_indices) : col_indices[k] < num_cols
       /\ \A r \in 1..num_rows :
             \A k \in (row_offsets[r] + 1)..(row_offsets[r + 1] - 1) :
                 col_indices[k] < col_indices[k + 1]
    THEN Some([nrows |-> num_rows, ncols |-> num_cols, row_offsets |-> row_offsets,
               col_indices |-> col_indices, values |-> values])
    ELSE None

\* mat.row_iter(): the rows as [col_indices, values] pairs of sequences
CsrRowIter(mat) ==
    [r \in 1..mat.nrows |->
        [col_indices |-> SubSeq(mat.col_indices, mat.row_offsets[r] + 1,
                                mat.row_offsets[r + 1]),
         values |-> SubSeq(mat.values, mat.row_offsets[r] + 1, mat.row_offsets[r + 1])]]

\* the fold over rows: offsets pushed before each row, entries appended
RECURSIVE FoldRows(_, _)
FoldRows(rows, acc) ==
    IF rows = <<>> THEN acc
    ELSE FoldRows(Tail(rows),
                  [row_offsets |-> Append(acc.row_offsets, Len(acc.values)),
                   col_indices |-> acc.col_indices \o Head(rows).col_indices,
                   values |-> acc.values \o Head(rows).values])

RECURSIVE AllRows(_)
AllRows(mats) ==
    IF mats = <<>> THEN <<>> ELSE CsrRowIter(Head(mats)) \o AllRows(Tail(mats))

all_equal(s) == \A i, j \in 1..Len(s) : s[i] = s[j]

\* Ok(matrix) or the panic of an unwrap / panic!
StackResult(m) ==
    IF IsSome(m) THEN [status |-> "ok", mat |-> m] ELSE [status |-> "panic", mat |-> None]

rstack_csr(mats) ==
    LET num_rows == Sum([k \in 1..Len(mats) |-> mats[k].nrows])
        num_cols == IF mats = <<>> THEN 0 ELSE mats[Len(mats)].ncols
        acc      == FoldRows(AllRows(mats),
                             [row_offsets |-> <<>>, col_indices |-> <<>>, values |-> <<>>])
    IN  StackResult(TryFromCsrData(num_rows, num_cols,
                                   Append(acc.row_offsets, Len(acc.values)),
                                   acc.col_indices, acc.values))

\* rows zipped with index and sorted by it
SortedByIndex(rows, index) ==
    [p \in 1..Len(rows) |-> rows[CHOOSE k \in 1..Len(rows) : index[k] = p - 1]]

rstack_csr_with_index(index, mats) ==
    IF ~all_equal([k \in 1..Len(mats) |-> mats[k].ncols]) THEN StackResult(None)
    ELSE LET num_rows == Sum([k \in 1..Len(mats) |-> mats[k].nrows])
             num_cols == IF mats = <<>> THEN 0 ELSE mats[1].ncols
             acc      == FoldRows(SortedByIndex(AllRows(mats), index),
                                  [row_offsets |-> <<>>, col_indices |-> <<>>,
                                   values |-> <<>>])
         IN  StackResult(TryFromCsrData(num_rows, num_cols,
                                        Append(acc.row_offsets, Len(acc.values)),
                                        acc.col_indices, acc.values))

\* ------------------------------------------------------------ SpecRstack
\* Pieces of at most one row and one to three columns, and an order for the
\* rows; the pieces are stacked by rstack or by rstack_with_index.
CsrPieces ==
    {[nrows |-> 0, ncols |-> 1, row_offsets |-> <<0>>, col_indices |-> <<>>, values |-> <<>>],
     [nrows |-> 1, ncols |-> 1, row_offsets |-> <<0, 1>>, col_indices |-> <<0>>,
      values |-> <<1>>],
     [nrows |-> 1, ncols |-> 2, row_offsets |-> <<0, 1>>, col_indices |-> <<0>>,
      values |-> <<2>>],
     [nrows |-> 1, ncols |-> 2, row_offsets |-> <<0, 2>>, col_indices |-> <<0, 1>>,
      values |-> <<3, 4>>],
     [nrows |-> 1, ncols |-> 3, row_offsets |-> <<0, 1>>, col_indices |-> <<2>>,
      values |-> <<5>>]}

RowOrders(n) ==
    {f \in [1..n -> 0..(n - 1)] : \A i, j \in 1..n : f[i] = f[j] => i = j}

InitRstack ==
    /\ \E n \in 1..MaxPieces :
         \E mats \in [1..n -> CsrPieces] :
           \E index \in RowOrders(Sum([k \in 1..n |-> mats[k].nrows])) :
              input = [mats |-> mats, index |-> index]
    /\ pc = "pieces"
    /\ last = [op |-> "none", status |-> "ok", mat |-> None]
    /\ adata = None
    /\ iter = None
    /\ yielded = <<>>
    /\ elem = None
    /\ written = None
    /\ warm_overwrite = FALSE
    /\ stack = None
    /\ slot = None

rstackFrame == <<elem, written, warm_overwrite, input, adata, iter, yielded, stack, slot>>

rstack ==
    /\ pc = "pieces"
    /\ \E r \in {rstack_csr(input.mats)} :
          last' = [op |-> "rstack", status |-> r.status, mat |-> r.mat]
    /\ pc' = "done"
    /\ UNCHANGED rstackFrame

rstack_with_index ==
    /\ pc = "pieces"
    /\ \E r \in {rstack_csr_with_index(input.index, input.mats)} :
          last' = [op |-> "rstack_with_index", status |-> r.status, mat |-> r.mat]
    /\ pc' = "done"
    /\ UNCHANGED rstackFrame

NextRstack ==
    \/ rstack
    \/ rstack_with_index

SpecRstack == InitRstack /\ [][NextRstack]_vars

\* C24: stacking CSR pieces whose column counts are not all the same never
\* returns a matrix, by rstack or by rstack_with_index, in whatever order the
\* pieces come.
C24_ColumnCountsAgree ==
    (/\ pc = "done"
     /\ ~all_equal([k \in 1..Len(input.mats) |-> input.mats[k].ncols]))
        => last.status # "ok"


\* ------------------------------------------------ a backend that can fail
\* The calls of an element with the outcome of the backend made explicit:
\* write_ok tells whether overwrite succeeds, read_ok whether a read does.  A
\* call ends with Ok, with Err returned to the caller, or with the process
\* aborted (a panic inside replace_with_or_abort).
CallResult(e, status) == [elem |-> e, status |-> status]

InnerArrayElem_save_on(e, v, write_ok) ==
    IF ~write_ok THEN CallResult(e, "abort")
    ELSE CallResult(InnerArrayElem_save(e, v).elem, "ok")

InnerArrayElem_subset_on(e, selection, read_ok, write_ok) ==
    IF ~IsSome(e.element) /\ ~read_ok THEN CallResult(e, "err")
    ELSE IF ~write_ok THEN CallResult(e, "abort")
    ELSE CallResult(InnerArrayElem_subset(e, selection).elem, "ok")

InnerDataFrameElem_set_index_on(e, index, write_ok) ==
    IF Len(e.index) # Len(index) THEN CallResult(e, "err")
    ELSE IF ~write_ok THEN CallResult([e EXCEPT !.index = index], "abort")
    ELSE CallResult(Unwrap(InnerDataFrameElem_set_index(e, index).elem), "ok")

InnerDataFrameElem_save_on(e, df, write_ok) ==
    IF ~(df.height = 0 \/ Len(e.index) = df.height) THEN CallResult(e, "err")
    ELSE IF ~write_ok THEN CallResult(e, "abort")
    ELSE CallResult(Unwrap(InnerDataFrameElem_save(e, df).elem), "ok")

\* ----------------------------------------------------------- SpecBackend
\* An array element and a DataFrame element over a backend whose writes and
\* reads may fail; elem holds both.  Nothing runs once the process has aborted.
BackendLog(op, write_ok, r) ==
    [op |-> op, write_ok |-> write_ok, status |-> r.status]

InitBackend ==
    /\ \E v \in ArrayValues, index \in FrameIndexes, enabled \in BOOLEAN :
          elem = [array |-> [ArrayElem_try_from(WriteData(v))
                                EXCEPT !.cache_enabled = enabled],
                  frame |-> Unwrap(InnerDataFrameElem_new(
                               index, [height |-> Len(index), cols |-> <<"a">>,
                                       v |-> 0]).elem)]
    /\ last = [op |-> "attach", write_ok |-> TRUE, status |-> "ok"]
    /\ pc = "running"
    /\ written = None
    /\ warm_overwrite = FALSE
    /\ input = None
    /\ adata = None
    /\ iter = None
    /\ yielded = <<>>
    /\ stack = None
    /\ slot = None

backendFrame == <<written, warm_overwrite, input, adata, iter, yielded, stack, slot>>

BackendStep(op, write_ok, r, part) ==
    /\ elem' = IF part = "array" THEN [elem EXCEPT !.array = r.elem]
               ELSE [elem EXCEPT !.frame = r.elem]
    /\ last' = BackendLog(op, write_ok, r)
    /\ pc' = IF r.status = "abort" THEN "aborted" ELSE "running"
    /\ UNCHANGED backendFrame

backend_data ==
    /\ pc = "running"
    /\ \E read_ok \in BOOLEAN :
          BackendStep("data", TRUE,
                      IF IsSome(elem.array.element) \/ read_ok
                      THEN CallResult(InnerArrayElem_data(elem.array).elem, "ok")
                      ELSE CallResult(elem.array, "err"),
                      "array")

backend_save ==
    /\ pc = "running"
    /\ \E v \in ArrayValues, write_ok \in BOOLEAN :
          BackendStep("save", write_ok,
                      InnerArrayElem_save_on(elem.array, v, write_ok), "array")

backend_subset ==
    /\ pc = "running"
    /\ \E s \in ProtoSelections(elem.array.shape), read_ok, write_ok \in BOOLEAN :
          /\ ValidSelection(s, elem.array.shape)
          /\ BackendStep("subset", write_ok,
                         InnerArrayElem_subset_on(elem.array, s, read_ok, write_ok),
                         "array")

backend_set_index ==
    /\ pc = "running"
    /\ \E index \in FrameIndexes, write_ok \in BOOLEAN :
          BackendStep("set_index", write_ok,
                      InnerDataFrameElem_set_index_on(elem.frame, index, write_ok),
                      "frame")

backend_frame_save ==
    /\ pc = "running"
    /\ \E df \in Frames, write_ok \in BOOLEAN :
          BackendStep("frame_save", write_ok,
                      InnerDataFrameElem_save_on(elem.frame, df, write_ok), "frame")

NextBackend ==
    \/ backend_data
    \/ backend_save
    \/ backend_subset
    \/ backend_set_index
    \/ backend_frame_save

SpecBackend == InitBackend /\ [][NextBackend]_vars

\* C25: a save, subset or set_index during which the backend overwrite fails
\* returns Err to the caller: the process goes on, and the call does not
\* report Ok.
C25_FailureIsErr ==
    (last.op \in {"save", "subset", "set_index", "frame_save"} /\ ~last.write_ok)
        => /\ last.status # "ok"
           /\ last.status # "abort"
           /\ pc = "running"


\* ------------------------------------------- backed AnnData handle (pyanndata)
\* A handle is a file name and a Slot holding the open dataset; clone_ref
\* clones the Slot, so a handle and its clones share one cell.  Every method
\* runs under the interpreter lock, one call at a time.  An open dataset is
\* the mode it was opened with and the file it is backed by; the files hold
\* the stored X.
AnnHandles == {"h", "h_clone"}

OpenModes == {"r", "r+", "w"}

\* mutant: clone_ref gives the clone a cell of its own
Mut_clone_ref_own_cell(h) == h

\* the cell behind a handle (Clone for InnerAnnData)
AnnCellOf(h) == IF h = "h_clone" THEN "h" ELSE h

InnerAnnData_is_closed(cells, h) == cells[AnnCellOf(h)] = None

HandleResult(cells, ok) == [cells |-> cells, ok |-> ok]

\* close: the dataset is taken out of the slot, then closed
InnerAnnData_close(cells, h, close_ok) ==
    LET r == Slot_extract(cells[AnnCellOf(h)])
        c == [cells EXCEPT ![AnnCellOf(h)] = r.content]
    IN  IF IsSome(r.ret) THEN HandleResult(c, close_ok) ELSE HandleResult(c, TRUE)

\* open: only on a closed handle; the file is opened in the mode asked for
\* and the dataset read from it is put into the slot
InnerAnnData_open(cells, h, filename, mode, open_ok) ==
    IF ~InnerAnnData_is_closed(cells, h) THEN HandleResult(cells, TRUE)
    ELSE IF mode \notin {"r", "r+"} THEN HandleResult(cells, FALSE)
    ELSE IF ~open_ok THEN HandleResult(cells, FALSE)
    ELSE HandleResult([cells EXCEPT ![AnnCellOf(h)] =
                          Slot_insert(cells[AnnCellOf(h)],
                                      [mode |-> mode, file |-> filename]).content],
                      TRUE)


\* mutant: the selection is applied to the backing file also when out is given
Mut_subset_out_in_place(st, h, obs, var, out, backend) ==
    LET ds    == Unwrap(st.cells[AnnCellOf(h)])
        slice == <<IF IsSome(obs) THEN Unwrap(obs) ELSE FullSlice,
                   IF IsSome(var) THEN Unwrap(var) ELSE FullSlice>>
        sub   == ArraySelect(Unwrap(st.files[ds.file]), slice)
    IN  IF IsSome(out)
        THEN [cells |-> [st.cells EXCEPT !["h_out"] =
                            Some([mode |-> "r+", file |-> Unwrap(out)])],
              files |-> [st.files EXCEPT ![Unwrap(out)] = Some(sub),
                                         ![ds.file] = Some(sub)],
              status |-> "ok", ret |-> Some("h_out")]
        ELSE [cells |-> st.cells, files |-> [st.files EXCEPT ![ds.file] = Some(sub)],
              status |-> "ok", ret |-> None]

\* AnnData.subset(obs_indices, var_indices, out, backend): a missing index
\* argument is the full selection; with out the selection is written to that
\* file and a handle opened on it in mode r+ is returned; without out the
\* dataset is subset in place.  A closed handle panics on inner(); an in-place
\* subset of a dataset opened read-only fails in the overwrite of its elements.
AnnData_subset(st, h, obs, var, out, backend) ==
    IF InnerAnnData_is_closed(st.cells, h)
    THEN [cells |-> st.cells, files |-> st.files, status |-> "panic", ret |-> None]
    ELSE
    LET ds    == Inner_deref(st.cells[AnnCellOf(h)]).ret[1]
        slice == <<IF IsSome(obs) THEN Unwrap(obs) ELSE FullSlice,
                   IF IsSome(var) THEN Unwrap(var) ELSE FullSlice>>
        sub   == ArraySelect(Unwrap(st.files[ds.file]), slice)
    IN  IF IsSome(out)
        THEN IF IsSome(backend) /\ backend # Some("hdf5")
             THEN [cells |-> st.cells, files |-> st.files, status |-> "err",
                   ret |-> None]
             ELSE [cells |-> [st.cells EXCEPT !["h_out"] =
                                 Some([mode |-> "r+", file |-> Unwrap(out)])],
                   files |-> [st.files EXCEPT ![Unwrap(out)] = Some(sub)],
                   status |-> "ok", ret |-> Some("h_out")]
        ELSE IF ds.mode # "r+"
             THEN [cells |-> st.cells, files |-> st.files, status |-> "abort",
                   ret |-> None]
             ELSE [cells |-> st.cells, files |-> [st.files EXCEPT ![ds.file] = Some(sub)],
                   status |-> "ok", ret |-> None]

\* ------------------------------------------------------------ SpecHandle
\* A handle h on the file f, its clone, and the file out that a subset may
\* create; any sequence of is_closed, close, open and subset through h and
\* its clone.  slot holds the cells, adata the files.
HandleLog(op, h, mode, ok, status, ret, arg) ==
    [op |-> op, h |-> h, mode |-> mode, ok |-> ok, status |-> status, ret |-> ret,
     arg |-> arg, pre_cells |-> Unwrap(slot), pre_files |-> Unwrap(adata)]

NoSubsetArg == [obs |-> None, var |-> None, out |-> None, backend |-> None]

InitHandle ==
    /\ \E v \in ArrayValues, mode \in {"r", "r+"} :
         /\ adata = Some([f |-> Some(v), out |-> None])
         /\ slot = Some([h |-> Some([mode |-> mode, file |-> "f"]),
                         h_clone |-> Some([mode |-> mode, file |-> "f"]),
                         h_out |-> None])
         /\ last = [op |-> "new_from", h |-> "h", mode |-> mode, ok |-> TRUE,
                    status |-> "ok", ret |-> None, arg |-> NoSubsetArg,
                    pre_cells |-> [h |-> Some([mode |-> mode, file |-> "f"]),
                                   h_clone |-> Some([mode |-> mode, file |-> "f"]),
                                   h_out |-> None],
                    pre_files |-> [f |-> Some(v), out |-> None]]
    /\ pc = "handle"
    /\ input = None
    /\ iter = None
    /\ yielded = <<>>
    /\ elem = None
    /\ written = None
    /\ warm_overwrite = FALSE
    /\ stack = None

handleFrame == <<elem, written, warm_overwrite, input, iter, yielded, stack>>

handle_is_closed ==
    /\ pc = "handle"
    /\ \E h \in AnnHandles :
          last' = HandleLog("is_closed", h, "r",
                            InnerAnnData_is_closed(Unwrap(slot), h), "ok", None,
                            NoSubsetArg)
    /\ UNCHANGED <<slot, adata, pc, handleFrame>>

handle_close ==
    /\ pc = "handle"
    /\ \E h \in AnnHandles, close_ok \in BOOLEAN :
         \E r \in {InnerAnnData_close(Unwrap(slot), h, close_ok)} :
            /\ slot' = Some(r.cells)
            /\ last' = HandleLog("close", h, "r", r.ok, IF r.ok THEN "ok" ELSE "err",
                                 None, NoSubsetArg)
    /\ UNCHANGED <<adata, pc, handleFrame>>

handle_open ==
    /\ pc = "handle"
    /\ \E h \in AnnHandles, mode \in OpenModes, open_ok \in BOOLEAN :
         \E r \in {InnerAnnData_open(Unwrap(slot), h, "f", mode, open_ok)} :
            /\ slot' = Some(r.cells)
            /\ last' = HandleLog("open", h, mode, r.ok, IF r.ok THEN "ok" ELSE "err",
                                 None, NoSubsetArg)
    /\ UNCHANGED <<adata, pc, handleFrame>>

SubsetObs == {None, Some(IndexElem(<<0>>)), Some(IndexElem(<<1, 0>>)),
              Some(SliceElem(0, Some(1), 1))}

SubsetVar == {None, Some(IndexElem(<<1>>))}

handle_subset ==
    /\ pc = "handle"
    /\ Unwrap(adata).out = None
    /\ \E h \in AnnHandles, obs \in SubsetObs, var \in SubsetVar,
          out \in {None, Some("out")}, backend \in {None, Some("hdf5"), Some("zarr")} :
         /\ ValidSelection(<<IF IsSome(obs) THEN Unwrap(obs) ELSE FullSlice,
                             IF IsSome(var) THEN Unwrap(var) ELSE FullSlice>>,
                           Unwrap(Unwrap(adata).f).shape)
         /\ \E r \in {AnnData_subset([cells |-> Unwrap(slot), files |-> Unwrap(adata)],
                                     h, obs, var, out, backend)} :
              /\ slot' = Some(r.cells)
              /\ adata' = Some(r.files)
              /\ pc' = IF r.status = "abort" THEN "aborted" ELSE "handle"
              /\ last' = HandleLog("subset", h, "r", r.status = "ok", r.status, r.ret,
                                   [obs |-> obs, var |-> var, out |-> out,
                                    backend |-> backend])
    /\ UNCHANGED handleFrame

NextHandle ==
    \/ handle_is_closed
    \/ handle_close
    \/ handle_open
    \/ handle_subset

SpecHandle == InitHandle /\ [][NextHandle]_vars

AllClosed == \A h \in AnnHandles : InnerAnnData_is_closed(Unwrap(slot), h)

NoneClosed == \A h \in AnnHandles : ~InnerAnnData_is_closed(Unwrap(slot), h)

WasClosed == InnerAnnData_is_closed(last.pre_cells, last.h)

\* C26: a handle and its clones are closed together.  close leaves all of them
\* closed and is Ok on a closed object; open in mode r or r+ on a closed
\* object, when it succeeds, leaves none of them closed; open in another mode
\* on a closed object fails and leaves it closed; open on an object that is
\* not closed changes nothing; a closed object stays closed until an open
\* succeeds.
C26_Lifecycle ==
    /\ AllClosed \/ NoneClosed
    /\ last.op = "is_closed" => (last.ok <=> AllClosed)
    /\ last.op = "close" => AllClosed /\ (WasClosed => last.ok)
    /\ (last.op = "open" /\ WasClosed /\ last.mode \in {"r", "r+"} /\ last.ok)
          => NoneClosed /\ Unwrap(Unwrap(slot)[AnnCellOf(last.h)]).mode = last.mode
    /\ (last.op = "open" /\ WasClosed /\ last.mode \notin {"r", "r+"})
          => ~last.ok /\ AllClosed
    /\ (last.op = "open" /\ ~WasClosed) => last.ok /\ Unwrap(slot) = last.pre_cells
    /\ (WasClosed /\ ~AllClosed) => last.op = "open" /\ last.ok

\* a closed object has been reopened through the original handle in mode r+,
\* and its clone is open as well
C26_Witness ==
    /\ last.op = "open"
    /\ last.h = "h"
    /\ last.mode = "r+"
    /\ last.ok
    /\ last.pre_cells["h"] = None
    /\ ~InnerAnnData_is_closed(Unwrap(slot), "h_clone")
    /\ ~InnerAnnData_is_closed(Unwrap(slot), "h")

SubsetSlice ==
    <<IF IsSome(last.arg.obs) THEN Unwrap(last.arg.obs) ELSE FullSlice,
      IF IsSome(last.arg.var) THEN Unwrap(last.arg.var) ELSE FullSlice>>

\* C27: a subset that returns Ok with out given has written the selection to
\* the new file and returned a handle on it, and has left the original file
\* and the original handle as they were; without out it has replaced the
\* original by the selection and returned None; a missing obs_indices or
\* var_indices selects the whole axis.
C27_SubsetOut ==
    (last.op = "subset" /\ last.status = "ok") =>
        LET before == Unwrap(last.pre_files.f)
            sub    == ArraySelect(before, SubsetSlice)
        IN  /\ ~IsSome(last.arg.obs) => sub.shape[1] = before.shape[1]
            /\ ~IsSome(last.arg.var) => sub.shape[2] = before.shape[2]
            /\ IF IsSome(last.arg.out)
               THEN /\ Unwrap(adata).out = Some(sub)
                    /\ IsSome(last.ret)
                    /\ Unwrap(slot)[Unwrap(last.ret)] = Some([mode |-> "r+", file |-> "out"])
                    /\ Unwrap(adata).f = last.pre_files.f
                    /\ \A h \in AnnHandles :
                          Unwrap(slot)[AnnCellOf(h)] = last.pre_cells[AnnCellOf(h)]
               ELSE /\ Unwrap(adata).f = Some(sub)
                    /\ last.ret = None
                    /\ Unwrap(adata).out = last.pre_files.out
                    /\ Unwrap(slot) = last.pre_cells

\* a subset with out, by rows 1 and 0 and all columns, of a two-row dataset
\* opened read-only: the new file holds the two rows swapped, the original
\* is as it was
C27_Witness ==
    /\ last.op = "subset"
    /\ last.status = "ok"
    /\ last.arg.out = Some("out")
    /\ last.arg.obs = Some(IndexElem(<<1, 0>>))
    /\ last.arg.var = None
    /\ Unwrap(Unwrap(adata).out).shape = <<2, MaxCols>>
    /\ Unwrap(adata).out # Unwrap(adata).f
    /\ Unwrap(adata).f = last.pre_files.f
    /\ Unwrap(slot)["h"] = Some([mode |-> "r", file |-> "f"])


\* ------------------------------------------------------------- SpecSplit
\* The index of a stack with given row counts and one selection of axis 0;
\* split_select is applied to it.
SplitSels(n) ==
    {SliceElem(a, Some(b), s) : a \in 0..n, b \in 0..(n + 1), s \in Steps}
        \cup {SliceElem(a, None, s) : a \in 0..n, s \in Steps}
        \cup {IndexElem(<<i>>) : i \in 0..(n - 1)}

InitSplit ==
    /\ \E rows \in RowCounts :
          \E search \in SearchChoices(VecVecIndex_from_iter(rows, <<>>).offsets, 0) :
             \E s \in SplitSels(Sum(rows)) :
                /\ s.tag = "Slice" => ValidSelection(<<s>>, <<Sum(rows)>>)
                /\ input = [rows |-> rows, index |-> VecVecIndex_from_iter(rows, search),
                            sel |-> s]
    /\ last = [op |-> "none", indices |-> <<>>, mapping |-> None]
    /\ pc = "split"
    /\ elem = None
    /\ written = None
    /\ warm_overwrite = FALSE
    /\ adata = None
    /\ iter = None
    /\ yielded = <<>>
    /\ stack = None
    /\ slot = None

split_select ==
    /\ pc = "split"
    /\ \E r \in {VecVecIndex_split_select(input.index, input.sel)} :
          last' = [op |-> "split_select", indices |-> r.indices, mapping |-> r.mapping]
    /\ pc' = "done"
    /\ UNCHANGED <<elem, written, warm_overwrite, input, adata, iter, yielded, stack, slot>>

NextSplit == split_select

SpecSplit == InitSplit /\ [][NextSplit]_vars

\* C28: for a slice, with [start, end) the slice bounded by the total row
\* count and (os, is) = ix(start), (oe, ie) = ix(end): one slice [is, ie) for
\* os when os = oe; otherwise [is, ..) for os, [0, ie) for oe and the full
\* range for every source strictly between, and nothing for any other source;
\* every sub-slice carries the step of the input, and no mapping is returned.
C28_SliceSplit ==
    (pc = "done" /\ input.sel.tag = "Slice") =>
        LET b    == BoundedSlice(input.sel, VecVecIndex_len(input.index))
            s    == VecVecIndex_ix(input.index, b.start)
            e    == VecVecIndex_ix(input.index, b.end)
            step == input.sel.step
        IN  /\ last.mapping = None
            /\ IF s.outer = e.outer
               THEN /\ DOMAIN last.indices = {s.outer}
                    /\ last.indices[s.outer] = SliceElem(s.inner, Some(e.inner), step)
               ELSE /\ DOMAIN last.indices
                          = {s.outer, e.outer} \cup {o \in 0..e.outer : s.outer < o /\ o < e.outer}
                    /\ last.indices[s.outer] = SliceElem(s.inner, None, step)
                    /\ last.indices[e.outer] = SliceElem(0, Some(e.inner), step)
                    /\ \A o \in DOMAIN last.indices :
                          (s.outer < o /\ o < e.outer)
                              => last.indices[o] = SliceElem(0, None, step)

\* a slice with step 2 from the first source into the third, the second
\* source covered whole
C28_Witness ==
    /\ pc = "done"
    /\ input.rows = <<1, 2, 1>>
    /\ input.sel = SliceElem(0, Some(3), 2)
    /\ DOMAIN last.indices = {0, 1, 2}
    /\ last.indices[0] = SliceElem(0, None, 2)
    /\ last.indices[1] = SliceElem(0, None, 2)
    /\ last.indices[2] = SliceElem(0, Some(0), 2)


\* ------------------------------------------------ further claims on Spec
\* C29: after save(v) the recorded metadata describes v: dtype() is the dtype
\* of v and, for an array element, shape() is the shape of v.
C29_MetadataFollowsSave ==
    last.op = "save" =>
        /\ elem.dtype = Unwrap(last.arg).dtype
        /\ IsArray => elem.shape = Unwrap(last.arg).shape


\* ------------------------------------------------------------- SpecSave2
\* Two threads save through one shared Slot: elem.inner().save(v).  inner()
\* takes the lock of the slot, save runs statement by statement under the
\* guard (container, shape, cache), and the guard is dropped when save has
\* returned.  slot holds the owner of the lock, input the value each thread
\* saves, yielded the threads in the order their saves returned.
Savers == {"t1", "t2"}

\* mutant: the lock is handed out while another thread holds it
Mut_lock_not_exclusive(owner) == TRUE

\* Mutex::lock can be acquired when nobody holds it
Mutex_available(owner) == owner = None

\* the statements of InnerArrayElem::save, in order
SaveStatement(e, v, stage) ==
    IF stage = "locked" THEN [e EXCEPT !.container = WriteData(v)]
    ELSE IF stage = "written" THEN [e EXCEPT !.shape = v.shape]
    ELSE IF IsSome(e.element) THEN [e EXCEPT !.element = Some(v)]
    ELSE e

NextStage(stage) ==
    IF stage = "locked" THEN "written"
    ELSE IF stage = "written" THEN "shaped"
    ELSE "returned"

InitSave2 ==
    /\ \E v0 \in ArrayValues, cached \in BOOLEAN :
          elem = IF cached
                 THEN InnerArrayElem_data(
                          InnerArrayElem_enable_cache(
                              ArrayElem_try_from(WriteData(v0))).elem).elem
                 ELSE ArrayElem_try_from(WriteData(v0))
    /\ input \in [Savers -> ArrayValues]
    /\ pc = [t \in Savers |-> "idle"]
    /\ slot = None
    /\ yielded = <<>>
    /\ last = None
    /\ written = None
    /\ warm_overwrite = FALSE
    /\ adata = None
    /\ iter = None
    /\ stack = None

save2Frame == <<last, written, warm_overwrite, input, adata, iter, stack>>

save2_lock(t) ==
    /\ pc[t] = "idle"
    /\ Mutex_available(slot)
    /\ slot' = Some(t)
    /\ pc' = [pc EXCEPT ![t] = "locked"]
    /\ UNCHANGED <<elem, yielded, save2Frame>>

save2_statement(t) ==
    /\ pc[t] \in {"locked", "written", "shaped"}
    /\ elem' = SaveStatement(elem, input[t], pc[t])
    /\ pc' = [pc EXCEPT ![t] = NextStage(pc[t])]
    /\ UNCHANGED <<slot, yielded, save2Frame>>

save2_unlock(t) ==
    /\ pc[t] = "returned"
    /\ slot' = IF slot = Some(t) THEN None ELSE slot
    /\ pc' = [pc EXCEPT ![t] = "done"]
    /\ yielded' = Append(yielded, t)
    /\ UNCHANGED <<elem, save2Frame>>

NextSave2 ==
    \E t \in Savers :
        \/ save2_lock(t)
        \/ save2_statement(t)
        \/ save2_unlock(t)

SpecSave2 == InitSave2 /\ [][NextSave2]_vars

\* C30: when both saves have returned, the container holds the value of the
\* save that returned last, a populated cache holds that value too, and the
\* recorded shape is its shape; and whenever no save is in progress the cache
\* and the shape belong to the value in the container.
C30_SavesSerialized ==
    /\ (\A t \in Savers : pc[t] = "done") =>
          LET v == input[yielded[Len(yielded)]]
          IN  /\ ReadData(elem.container) = v
              /\ elem.shape = v.shape
              /\ IsSome(elem.element) => elem.element = Some(v)
    /\ (\A t \in Savers : pc[t] \in {"idle", "done"}) =>
          /\ elem.shape = ReadData(elem.container).shape
          /\ IsSome(elem.element) => elem.element = Some(ReadData(elem.container))

\* two saves of different values on an element with a populated cache have
\* both returned, t1 last
C30_Witness ==
    /\ \A t \in Savers : pc[t] = "done"
    /\ yielded = <<"t2", "t1">>
    /\ input["t1"] # input["t2"]
    /\ input["t1"].shape # input["t2"].shape
    /\ elem.element = Some(input["t1"])
    /\ ReadData(elem.container) = input["t1"]



\* --------------------------------------- a stack over shared source slots
\* An ArrayElem is a Slot: the dataset that owns a source and the stack built
\* over it hold clones of one handle, so both reach the same cell.  A cell is
\* the Option<InnerArrayElem> of that slot; files[k] tells whether the
\* container of source k still exists.
\* the sources a stack is built from: <<dtype, rows, columns>> per source
SharedSources ==
    {<<>>,
     <<<<"Array(i32)", 2, 2>>>>,
     <<<<"Array(i32)", 1, 2>>, <<"Array(i32)", 2, 2>>>>,
     <<<<"Array(i32)", 2, 2>>, <<"Array(i32)", 0, 2>>, <<"Array(i32)", 1, 2>>>>,
     <<<<"Array(i32)", 1, 2>>, <<"Array(f64)", 1, 2>>>>,
     <<<<"Array(i32)", 1, 2>>, <<"Array(i32)", 1, 1>>>>}

SharedValue(srcs, k) ==
    MkValue(srcs[k][1], <<srcs[k][2], srcs[k][3]>>, 10 * k)

\* the value the owner of a source saves over it: one row of the same width
SavedValue(e) ==
    MkValue("Array(i32)", <<1, e.shape[2]>>, 90)

\* the selection the owner of a source shrinks it with: its first row
FirstRow == <<SliceElem(0, Some(1), 1)>>

\* the axis-0 selections applied through the stack
SharedSels(n) ==
    {FullSlice, SliceElem(0, Some(n), 1), SliceElem(1, None, 1), IndexElem(<<0>>),
     IndexElem(<<n - 1, 0>>)}

\* StackedArrayElem::new over slots: the dtypes are compared as Options (an
\* empty slot counts as None), then inner() is dereferenced on every slot for
\* its shape, then the shapes are compared and shapes[0] is taken
StackedArrayElem_new_slots(cells, search) ==
    LET n == Len(cells)
    IN  IF ~all_equal([k \in 1..n |-> IF IsSome(cells[k]) THEN Some(Unwrap(cells[k]).dtype)
                                      ELSE None])
        THEN [status |-> "err", val |-> None]
        ELSE IF \E k \in 1..n : Inner_deref(cells[k]).panic
             THEN [status |-> "panic", val |-> None]
        ELSE IF ~all_equal([k \in 1..n |-> Tail(Unwrap(cells[k]).shape)])
             THEN [status |-> "err", val |-> None]
        ELSE IF n = 0 THEN [status |-> "panic", val |-> None]
        ELSE LET st == StackedArrayElem_new([k \in 1..n |-> Unwrap(cells[k])], search).val
             IN  [status |-> "ok", val |-> Some([shape |-> st.shape, index |-> st.index])]

\* mutant: the shape is recomputed from the rows the sources have now
Mut_shape_refreshed(st, cells) ==
    [st.shape EXCEPT ![1] = Sum([k \in 1..Len(cells) |->
                                   IF IsSome(cells[k]) THEN Unwrap(cells[k]).shape[1] ELSE 0])]

\* InnerStackedArrayElem::shape
InnerStackedArrayElem_shape(st, cells) ==
    st.shape

\* InnerStackedArrayElem::data over slots: lock().as_mut().map(..) inside
\* flat_map passes over an empty slot
InnerStackedArrayElem_data_slots(st, cells) ==
    LET present == SelectSeq(cells, LAMBDA c : IsSome(c))
        r == InnerStackedArrayElem_data(
                 [shape |-> st.shape, index |-> st.index,
                  elems |-> [k \in 1..Len(present) |-> Unwrap(present[k])]])
    IN  [status |-> IF r.ret.ok THEN "ok" ELSE "err",
                  ret |-> IF r.ret.ok THEN Some(r.ret.val) ELSE None]

\* InnerStackedArrayElem::select over slots: the sources are visited in order
\* and the first failure ends the visit; el.inner() is dereferenced on every
\* source that has an entry in indices (a panic on an empty slot), and a
\* sub-selection beyond the rows the source has now is an error of the read
InnerStackedArrayElem_select_slots(st, cells, selection) ==
    LET sp == VecVecIndex_split_select(st.index, selection[1])
        touched == {k \in 1..Len(cells) : (k - 1) \in DOMAIN sp.indices}
        bad == {k \in touched :
                   \/ Inner_deref(cells[k]).panic
                   \/ ~ValidSelection(<<sp.indices[k - 1]>>, Unwrap(cells[k]).shape)}
    IN  IF bad # {}
        THEN IF Inner_deref(cells[CHOOSE k \in bad : \A j \in bad : k <= j]).panic
             THEN [status |-> "panic", ret |-> None]
             ELSE [status |-> "err", ret |-> None]
        ELSE LET r == InnerStackedArrayElem_select(
                          [shape |-> st.shape, index |-> st.index,
                           elems |-> [k \in 1..Len(cells) |->
                                         IF IsSome(cells[k]) THEN Unwrap(cells[k])
                                         ELSE ArrayElem_try_from(WriteData(
                                                  MkValue("Array(i32)", <<0, 0>>, 0)))]],
                          selection)
             IN  [status |-> IF r.ret.ok THEN "ok" ELSE "err",
                  ret |-> IF r.ret.ok THEN Some(r.ret.val) ELSE None]

\* mutant: the container is deleted and the slot keeps its content
Mut_clear_keeps_slot(cell, exists, delete_ok) ==
    [cell    |-> cell,
     exists  |-> IF IsSome(cell) /\ delete_ok THEN FALSE ELSE exists,
     deletes |-> IF IsSome(cell) THEN 1 ELSE 0,
     status  |-> IF IsSome(cell) /\ ~delete_ok THEN "err" ELSE "ok"]

\* ArrayElem::clear: extract(), and DataContainer::delete on what was there
ArrayElem_clear(cell, exists, delete_ok) ==
    LET x == Slot_extract(cell)
    IN  [cell    |-> x.content,
         exists  |-> IF IsSome(x.ret) /\ delete_ok THEN FALSE ELSE exists,
         deletes |-> IF IsSome(x.ret) THEN 1 ELSE 0,
         status  |-> IF IsSome(x.ret) /\ ~delete_ok THEN "err" ELSE "ok"]

\* ------------------------------------------------------------ SpecShared
\* Sources are attached; a stack is built over clones of their handles; the
\* owner goes on saving to, shrinking and clearing the sources while the
\* stack is read.  iter keeps the row counts the sources had at construction.
SharedLog(op, k, status, ret, arg) ==
    [op |-> op, k |-> k, status |-> status, ret |-> ret, arg |-> arg,
     pre_cells |-> slot, pre_files |-> written]

InitShared ==
    /\ \E srcs \in SharedSources :
          /\ input = srcs
          /\ slot = [k \in 1..Len(srcs) |->
                        Some(ArrayElem_try_from(WriteData(SharedValue(srcs, k))))]
          /\ written = [k \in 1..Len(srcs) |-> TRUE]
          /\ last = [op |-> "attach", k |-> 0, status |-> "ok", ret |-> None, arg |-> None,
                     pre_cells |-> [k \in 1..Len(srcs) |->
                                      Some(ArrayElem_try_from(WriteData(SharedValue(srcs, k))))],
                     pre_files |-> [k \in 1..Len(srcs) |-> TRUE]]
    /\ stack = None
    /\ iter = None
    /\ pc = "sources"
    /\ elem = None
    /\ warm_overwrite = FALSE
    /\ adata = None
    /\ yielded = <<>>

sharedFrame == <<elem, warm_overwrite, input, adata, yielded>>

CurrentRows == [k \in 1..Len(slot) |-> IF IsSome(slot[k]) THEN Unwrap(slot[k]).shape[1] ELSE 0]

shared_new ==
    /\ pc = "sources"
    /\ \E search \in SearchChoices(VecVecIndex_from_iter(CurrentRows, <<>>).offsets, 0) :
         \E r \in {StackedArrayElem_new_slots(slot, search)} :
            /\ stack' = r.val
            /\ iter' = IF r.status = "ok" THEN Some(CurrentRows) ELSE None
            /\ pc' = IF r.status = "ok" THEN "stacked" ELSE "no_stack"
            /\ last' = SharedLog("new", 0, r.status, r.val, None)
    /\ UNCHANGED <<slot, written, sharedFrame>>

src_save(k) ==
    /\ pc \in {"sources", "stacked"}
    /\ IsSome(slot[k])
    /\ \E r \in {InnerArrayElem_save(Unwrap(slot[k]), SavedValue(Unwrap(slot[k])))} :
          slot' = [slot EXCEPT ![k] = Some(r.elem)]
    /\ last' = SharedLog("save", k, "ok", None, None)
    /\ UNCHANGED <<written, stack, iter, pc, sharedFrame>>

src_subset(k) ==
    /\ pc \in {"sources", "stacked"}
    /\ IsSome(slot[k])
    /\ ValidSelection(FirstRow, Unwrap(slot[k]).shape)
    /\ \E r \in {InnerArrayElem_subset(Unwrap(slot[k]), FirstRow)} :
          slot' = [slot EXCEPT ![k] = Some(r.elem)]
    /\ last' = SharedLog("subset", k, "ok", None, None)
    /\ UNCHANGED <<written, stack, iter, pc, sharedFrame>>

src_clear(k) ==
    /\ pc \in {"sources", "stacked"}
    /\ \E delete_ok \in BOOLEAN :
         \E r \in {ArrayElem_clear(slot[k], written[k], delete_ok)} :
            /\ slot' = [slot EXCEPT ![k] = r.cell]
            /\ written' = [written EXCEPT ![k] = r.exists]
            /\ last' = SharedLog("clear", k, r.status, None, Some(r.deletes))
    /\ UNCHANGED <<stack, iter, pc, sharedFrame>>

shared_shape ==
    /\ pc = "stacked"
    /\ last' = SharedLog("shape", 0, "ok",
                         Some(InnerStackedArrayElem_shape(Unwrap(stack), slot)), None)
    /\ UNCHANGED <<slot, written, stack, iter, pc, sharedFrame>>

shared_split_select ==
    /\ pc = "stacked"
    /\ \E s \in SharedSels(Unwrap(stack).shape[1]) :
          /\ ValidSelection(<<s>>, Unwrap(stack).shape)
          /\ last' = SharedLog("split_select", 0, "ok",
                               Some(VecVecIndex_split_select(Unwrap(stack).index, s)), Some(s))
    /\ UNCHANGED <<slot, written, stack, iter, pc, sharedFrame>>

shared_data ==
    /\ pc = "stacked"
    /\ \E r \in {InnerStackedArrayElem_data_slots(Unwrap(stack), slot)} :
          last' = SharedLog("data", 0, r.status, r.ret, None)
    /\ UNCHANGED <<slot, written, stack, iter, pc, sharedFrame>>

shared_select ==
    /\ pc = "stacked"
    /\ \E s \in SharedSels(Unwrap(stack).shape[1]) :
          /\ ValidSelection(<<s>>, Unwrap(stack).shape)
          /\ \E r \in {InnerStackedArrayElem_select_slots(Unwrap(stack), slot, <<s>>)} :
                last' = SharedLog("select", 0, r.status, r.ret, Some(s))
    /\ UNCHANGED <<slot, written, stack, iter, pc, sharedFrame>>

NextShared ==
    \/ shared_new
    \/ \E k \in 1..Len(slot) : src_save(k)
    \/ \E k \in 1..Len(slot) : src_subset(k)
    \/ \E k \in 1..Len(slot) : src_clear(k)
    \/ shared_shape
    \/ shared_split_select
    \/ shared_data
    \/ shared_select

SpecShared == InitShared /\ [][NextShared]_vars


\* C31: the shape and the index of a stack are those of its construction:
\* whatever has been saved to, cut from or cleared in a source since,
\* shape() is (sum of the row counts at construction, other axes) and
\* split_select answers from the prefix sums of those row counts, while data()
\* through the stack is the concatenation of what the sources hold now.
C31_FixedAtConstruction ==
    pc = "stacked" =>
        LET built == Unwrap(iter)
            st    == Unwrap(stack)
            fixed == VecVecIndex_from_iter(built, st.index.search)
        IN  /\ st.shape[1] = Sum(built)
            /\ st.index = fixed
            /\ last.op = "shape" => last.ret = Some(<<Sum(built)>> \o Tail(st.shape))
            /\ last.op = "split_select"
                  => last.ret = Some(VecVecIndex_split_select(fixed, Unwrap(last.arg)))
            /\ (last.op = "data" /\ last.status = "ok")
                  => Unwrap(last.ret).data
                        = ConcatBuffers([k \in 1..Len(SelectSeq(slot, LAMBDA c : IsSome(c))) |->
                              ReadData(Unwrap(SelectSeq(slot, LAMBDA c : IsSome(c))[k]).container)])

\* data() read through the stack after a source lost rows: the rows returned
\* are those the sources hold now, fewer than shape() still reports
C31_Witness ==
    /\ pc = "stacked"
    /\ last.op = "data"
    /\ last.status = "ok"
    /\ CurrentRows # Unwrap(iter)
    /\ \A k \in 1..Len(slot) : IsSome(slot[k])
    /\ Unwrap(last.ret).shape[1] < Unwrap(stack).shape[1]

\* C32: StackedArrayElem::new returns Ok exactly when the sources agree on
\* dtype and on every axis but the first, and an error otherwise; on success
\* shape()[0] and index.len() are the sum of the sources' row counts and the
\* other axes are those of the sources.
C32_NewChecksSources ==
    last.op = "new" =>
        LET cells == last.pre_cells
            agree == /\ \A k \in 1..Len(cells) : IsSome(cells[k])
                     /\ \A a, b \in 1..Len(cells) :
                           /\ Unwrap(cells[a]).dtype = Unwrap(cells[b]).dtype
                           /\ Tail(Unwrap(cells[a]).shape) = Tail(Unwrap(cells[b]).shape)
        IN  /\ last.status = IF agree THEN "ok" ELSE "err"
            /\ last.status = "ok" =>
                  LET st == Unwrap(last.ret)
                      total == Sum([k \in 1..Len(cells) |-> Unwrap(cells[k]).shape[1]])
                  IN  /\ st.shape[1] = total
                      /\ VecVecIndex_len(st.index) = total
                      /\ \A k \in 1..Len(cells) : Tail(st.shape) = Tail(Unwrap(cells[k]).shape)

\* C38: a successful data() through a stack returns shape()[0] rows, also
\* after a source was emptied or cut since the stack was built.
C38_DataRowsMatchShape ==
    (pc = "stacked" /\ last.op = "data" /\ last.status = "ok")
        => Unwrap(last.ret).shape[1] = Unwrap(stack).shape[1]

\* C36: a clear() that returns Ok leaves the slot empty for every holder of
\* the handle; on a slot that held an element it deletes the container, once;
\* on a slot already empty it deletes nothing and changes nothing.
C36_ClearIdempotent ==
    (last.op = "clear" /\ last.status = "ok") =>
        /\ slot[last.k] = None
        /\ IF IsSome(last.pre_cells[last.k])
           THEN /\ last.arg = Some(1)
                /\ ~written[last.k]
                /\ \A j \in 1..Len(slot) : j # last.k =>
                      slot[j] = last.pre_cells[j] /\ written[j] = last.pre_files[j]
           ELSE /\ last.arg = Some(0)
                /\ slot = last.pre_cells
                /\ written = last.pre_files

\* a second clear() of a source whose container the first one deleted, with
\* a stack holding a clone of the handle
C36_Witness ==
    /\ pc = "stacked"
    /\ last.op = "clear"
    /\ last.status = "ok"
    /\ last.pre_cells[last.k] = None
    /\ ~written[last.k]
    /\ \E j \in 1..Len(slot) : IsSome(slot[j])


\* ----------------------------------------------- further claims on SpecChunk
\* C33 as stated: every next() that yields a chunk issues exactly one
\* selective read, of end - start rows, no whole read, and leaves the element
\* and its cache as they were.
C33_AsStated ==
    [][(pc = "iterating" /\ iter' # iter) =>
          /\ elem' = elem
          /\ last'.reads = 0
          /\ last'.sel_reads = 1
          /\ Unwrap(last'.ret).data.shape[1] = Unwrap(last'.ret).end - Unwrap(last'.ret).start
          /\ Unwrap(iter').current_position = Unwrap(last'.ret).end]_vars

\* C33: every next() that yields a chunk returns end - start rows, advances
\* the position to end and no further, issues no whole read, and leaves the
\* element and its cache as they were, also when the chunk covers every row
\* and caching is enabled; it issues exactly one selective read when the
\* element holds no cached value, and no read at all when it holds one.
C33_StepReads ==
    [][(pc = "iterating" /\ iter' # iter) =>
          /\ elem' = elem
          /\ last'.reads = 0
          /\ last'.sel_reads = IF IsSome(elem.element) THEN 0 ELSE 1
          /\ Unwrap(last'.ret).data.shape[1] = Unwrap(last'.ret).end - Unwrap(last'.ret).start
          /\ Unwrap(iter').current_position = Unwrap(last'.ret).end]_vars

\* one chunk that covers every row of an element whose value is cached
C33_Witness ==
    /\ pc = "iterating"
    /\ last.op = "next"
    /\ IsSome(last.ret)
    /\ Unwrap(last.ret).start = 0
    /\ Unwrap(last.ret).end = written.shape[1]
    /\ written.shape[1] > 1
    /\ last.pre_cached
    /\ elem.cache_enabled
    /\ last.sel_reads = 0
    /\ last.reads = 0


\* ------------------------------------------- row slices of a stored CsrMatrix
\* The group of a stored CSR matrix holds the datasets indptr, indices and
\* data and the attribute shape.
\* the column patterns of the rows a stored matrix is made of (three columns)
SliceRowPool ==
    {<<>>, <<0>>, <<0, 1>>, <<2>>}

\* the stored form of the matrix with these rows: the k-th stored value is k
StoredCsr(rows) ==
    LET acc == FoldRows([r \in 1..Len(rows) |-> [col_indices |-> rows[r], values |-> rows[r]]],
                        [row_offsets |-> <<>>, col_indices |-> <<>>, values |-> <<>>])
    IN  [shape |-> <<Len(rows), 3>>,
         indptr |-> Append(acc.row_offsets, Len(acc.col_indices)),
         indices |-> acc.col_indices,
         data |-> [k \in 1..Len(acc.col_indices) |-> k]]

\* Dataset::read_slice_1d(lo..hi): the entries [lo, hi), an error when the
\* range leaves the dataset
ReadSlice1d(ds, lo, hi) ==
    IF lo <= hi /\ hi <= Len(ds) THEN Some(SubSeq(ds, lo + 1, hi)) ELSE None

\* create_csr_from_rows
create_csr_from_rows(rows, num_col) ==
    LET acc == FoldRows(rows, [row_offsets |-> <<>>, col_indices |-> <<>>, values |-> <<>>])
    IN  StackResult(TryFromCsrData(Len(rows), num_col,
                                   Append(acc.row_offsets, Len(acc.values)),
                                   acc.col_indices, acc.values))

\* MatrixLike for CsrMatrix: get_rows; get_row(r).unwrap() on every index
CsrMatrix_get_rows(mat, idx) ==
    IF \E k \in 1..Len(idx) : idx[k] >= mat.nrows THEN StackResult(None)
    ELSE create_csr_from_rows([k \in 1..Len(idx) |-> CsrRowIter(mat)[idx[k] + 1]], mat.ncols)

\* mutant: the row pointers of the slice are not re-based
Mut_row_slice_not_rebased(container, a, b) ==
    LET indptr == ReadSlice1d(container.indptr, a, b + 1)
    IN  IF indptr = None THEN [status |-> "panic", mat |-> None, reads |-> <<>>]
        ELSE LET p  == Unwrap(indptr)
                 lo == p[1]
                 hi == p[Len(p)]
                 r  == StackResult(TryFromCsrData(Len(p) - 1, container.shape[2], p,
                                       Unwrap(ReadSlice1d(container.indices, lo, hi)),
                                       Unwrap(ReadSlice1d(container.data, lo, hi))))
             IN  [status |-> r.status, mat |-> r.mat,
                  reads |-> <<<<"indptr", a, b + 1>>, <<"data", lo, hi>>,
                              <<"indices", lo, hi>>>>]

\* MatrixIO for CsrMatrix: read_row_slice(a..b); reads lists the ranges read
\* from the datasets, in order
CsrMatrix_read_row_slice(container, a, b) ==
    LET indptr == ReadSlice1d(container.indptr, a, b + 1)
    IN  IF indptr = None THEN [status |-> "panic", mat |-> None, reads |-> <<>>]
        ELSE LET p  == Unwrap(indptr)
                 lo == p[1]
                 hi == p[Len(p)]
                 r  == StackResult(TryFromCsrData(Len(p) - 1, container.shape[2],
                                       [k \in 1..Len(p) |-> p[k] - lo],
                                       Unwrap(ReadSlice1d(container.indices, lo, hi)),
                                       Unwrap(ReadSlice1d(container.data, lo, hi))))
             IN  [status |-> r.status, mat |-> r.mat,
                  reads |-> <<<<"indptr", a, b + 1>>, <<"data", lo, hi>>,
                              <<"indices", lo, hi>>>>]

\* ----------------------------------------------------------- SpecRowSlice
\* A stored matrix of 0..MaxCsrRows rows and a range a..b of its rows.
InitRowSlice ==
    /\ \E n \in 0..MaxCsrRows :
         \E rows \in [1..n -> SliceRowPool] :
           \E a \in 0..n :
             \E b \in a..n :
                /\ input = [a |-> a, b |-> b]
                /\ written = StoredCsr(rows)
    /\ pc = "stored"
    /\ last = [op |-> "none", status |-> "ok", mat |-> None, reads |-> <<>>]
    /\ adata = None
    /\ iter = None
    /\ yielded = <<>>
    /\ elem = None
    /\ warm_overwrite = FALSE
    /\ stack = None
    /\ slot = None

read_row_slice ==
    /\ pc = "stored"
    /\ \E r \in {CsrMatrix_read_row_slice(written, input.a, input.b)} :
          last' = [op |-> "read_row_slice", status |-> r.status, mat |-> r.mat,
                   reads |-> r.reads]
    /\ pc' = "done"
    /\ UNCHANGED <<elem, written, warm_overwrite, input, adata, iter, yielded, stack, slot>>

NextRowSlice == read_row_slice

SpecRowSlice == InitRowSlice /\ [][NextRowSlice]_vars

\* C34: read_row_slice(a..b) with 0 <= a <= b <= nrows reads p[a..=b] of the
\* row pointers and the entries [p[a], p[b]) of data and indices, nothing
\* else, and returns the matrix of b - a rows and the stored column count
\* whose row pointers are p[a..=b] less p[a]: rows a..b of the stored matrix.
C34_RowSlice ==
    pc = "done" =>
        LET p    == written.indptr
            a    == input.a
            b    == input.b
            full == Unwrap(TryFromCsrData(written.shape[1], written.shape[2], p,
                                          written.indices, written.data))
        IN  /\ last.status = "ok"
            /\ last.reads = <<<<"indptr", a, b + 1>>, <<"data", p[a + 1], p[b + 1]>>,
                              <<"indices", p[a + 1], p[b + 1]>>>>
            /\ Unwrap(last.mat).nrows = b - a
            /\ Unwrap(last.mat).ncols = written.shape[2]
            /\ Unwrap(last.mat).row_offsets = [k \in 1..(b - a + 1) |-> p[a + k] - p[a + 1]]
            /\ last.mat = CsrMatrix_get_rows(full, [k \in 1..(b - a) |-> a + k - 1]).mat

\* a slice strictly inside the matrix, starting after stored values and
\* holding some
C34_Witness ==
    /\ pc = "done"
    /\ last.status = "ok"
    /\ input.a > 0
    /\ input.b < written.shape[1]
    /\ written.indptr[input.a + 1] > 0
    /\ written.indptr[input.b + 1] > written.indptr[input.a + 1] + 1
    /\ written.indptr[input.b + 1] < Len(written.data)
    /\ Unwrap(last.mat).values = SubSeq(written.data, written.indptr[input.a + 1] + 1,
                                        written.indptr[input.b + 1])


\* ------------------------------------------------ further claims on SpecCsr
\* C35: the row pointers stored are the running totals of the row lengths,
\* whatever their width; they are stored as i32 only if every one of them
\* fits i32 and as i64 otherwise, and the width depends on the input alone:
\* i32 exactly when the declared column count and the last row pointer fit.
C35_IndptrWidth ==
    pc \in {"csr_read", "done"} =>
        LET c    == Unwrap(adata).container
            n    == Len(input.rows)
            offs == [k \in 1..(n + 1) |-> Sum([j \in 1..(k - 1) |-> Len(input.rows[j])])]
        IN  /\ c.indptr.vals = offs
            /\ c.indptr.ty \in {"i32", "i64"}
            /\ c.indptr.ty = "i32" => \A k \in 1..(n + 1) : offs[k] <= I32_MAX
            /\ (\E k \in 1..(n + 1) : offs[k] > I32_MAX) => c.indptr.ty = "i64"
            /\ c.indptr.ty = (IF input.num_cols <= I32_MAX /\ offs[n + 1] <= I32_MAX
                              THEN "i32" ELSE "i64")

\* a stream whose last row pointer is the first value beyond i32, its column
\* indices still stored as i32
C35_Witness ==
    /\ pc = "done"
    /\ input.num_cols <= I32_MAX
    /\ Unwrap(adata).container.indptr.ty = "i64"
    /\ Unwrap(adata).container.indices.ty = "i32"
    /\ Unwrap(adata).container.indptr.vals[Len(input.rows) + 1] = I32_MAX + 1
    /\ Unwrap(adata).container.indptr.vals[Len(input.rows)] <= I32_MAX


\* ---------------------------------------------- further claims on SpecSplit
\* C37: every key of the map returned by split_select is the position of a
\* source, and the slice or index list under it stays within the rows of that
\* source.
C37_SplitWithinSources ==
    pc = "done" =>
        \A o \in DOMAIN last.indices :
            /\ o < Len(input.rows)
            /\ LET s == last.indices[o]
                   n == input.rows[o + 1]
               IN  IF s.tag = "Index"
                   THEN \A j \in 1..Len(s.idx) : s.idx[j] < n
                   ELSE /\ 0 <= s.start /\ s.start <= n
                        /\ IsSome(s.end) => (s.start <= Unwrap(s.end) /\ Unwrap(s.end) <= n)


\* -------------------------------------------------- StackedChunkedArrayElem
\* StackedChunkedArrayElem::new: one chunk iterator per source
StackedChunkedArrayElem_new(elems, chunk_size) ==
    [arrays |-> [k \in 1..Len(elems) |-> ChunkedArrayElem_new(elems[k], chunk_size)],
     current_position |-> 0, current_array |-> 0]

\* mutant: the bounds of a chunk are those within its source
RECURSIVE Mut_stacked_next_local(_, _)
Mut_stacked_next_local(it, elems) ==
    IF it.current_array >= Len(it.arrays)
    THEN [iter |-> it, elems |-> elems, item |-> None]
    ELSE LET a == it.current_array + 1
             r == ChunkedArrayElem_next(it.arrays[a], elems[a])
         IN  IF IsSome(r.item)
             THEN [iter |-> [it EXCEPT !.arrays[a] = r.iter,
                                       !.current_position = Unwrap(r.item).end],
                   elems |-> [elems EXCEPT ![a] = r.elem],
                   item |-> r.item]
             ELSE Mut_stacked_next_local([it EXCEPT !.current_array = a], elems)

\* Iterator::next: the next chunk of the current source with its bounds moved
\* to the rows of the stack, or the first chunk of a later source
RECURSIVE StackedChunkedArrayElem_next(_, _)
StackedChunkedArrayElem_next(it, elems) ==
    IF it.current_array >= Len(it.arrays)
    THEN [iter |-> it, elems |-> elems, item |-> None]
    ELSE LET a == it.current_array + 1
             r == ChunkedArrayElem_next(it.arrays[a], elems[a])
         IN  IF IsSome(r.item)
             THEN LET new_start == it.current_position
                      new_stop  == new_start + Unwrap(r.item).end - Unwrap(r.item).start
                  IN  [iter |-> [it EXCEPT !.arrays[a] = r.iter,
                                           !.current_position = new_stop],
                       elems |-> [elems EXCEPT ![a] = r.elem],
                       item |-> Some([data |-> Unwrap(r.item).data,
                                      start |-> new_start, end |-> new_stop])]
             ELSE StackedChunkedArrayElem_next([it EXCEPT !.current_array = a], elems)

\* ExactSizeIterator::len
StackedChunkedArrayElem_len(it) ==
    Sum([k \in 1..Len(it.arrays) |-> ChunkedArrayElem_len(it.arrays[k])])

\* -------------------------------------------------------- SpecStackChunk
\* A stack of 1..MaxSources sources of 0..MaxSrcRows rows each, iterated in
\* chunks of 1..MaxChunk rows by repeated next().
InitStackChunk ==
    /\ \E rows \in RowCounts :
         \E c \in 1..MaxChunk :
            /\ input = [rows |-> rows, chunk_size |-> c]
            /\ written = MkValue("Array(i32)", <<Sum(rows), MaxCols>>, 0)
            /\ stack = Some([k \in 1..Len(rows) |->
                               ArrayElem_try_from(WriteData(SourceValue(rows, k)))])
    /\ pc = "stacked"
    /\ last = [op |-> "none", ret |-> None, pre_count |-> 0]
    /\ iter = None
    /\ yielded = <<>>
    /\ elem = None
    /\ warm_overwrite = FALSE
    /\ adata = None
    /\ slot = None

stack_chunked ==
    /\ pc = "stacked"
    /\ iter' = Some(StackedChunkedArrayElem_new(Unwrap(stack), input.chunk_size))
    /\ pc' = "iterating"
    /\ UNCHANGED <<elem, last, written, warm_overwrite, input, adata, yielded, stack, slot>>

stack_next ==
    /\ pc = "iterating"
    /\ \E r \in {StackedChunkedArrayElem_next(Unwrap(iter), Unwrap(stack))} :
          /\ iter' = Some(r.iter)
          /\ stack' = Some(r.elems)
          /\ yielded' = IF IsSome(r.item) THEN Append(yielded, Unwrap(r.item)) ELSE yielded
          /\ last' = [op |-> "next", ret |-> r.item, pre_count |-> Len(yielded)]
    /\ UNCHANGED <<elem, written, warm_overwrite, input, pc, adata, slot>>

NextStackChunk ==
    \/ stack_chunked
    \/ stack_next

SpecStackChunk == InitStackChunk /\ [][NextStackChunk]_vars

\* C39: the chunks of the stack start at 0 and follow one another without a
\* gap; each lies within one source and ends at the end of that source or c
\* rows after its start, whichever comes first, and holds those rows of the
\* stack; len() is the sum over the sources of ceil(r_i / c); next() yields an
\* item exactly while fewer than len() were yielded, and when it returns None
\* the chunks end at the total row count.
C39_StackedChunks ==
    LET rows    == input.rows
        c       == input.chunk_size
        offsets == [p \in 1..(Len(rows) + 1) |-> Sum(SubSeq(rows, 1, p - 1))]
        count   == Sum([k \in 1..Len(rows) |-> (rows[k] + c - 1) \div c])
    IN  /\ \A k \in 1..Len(yielded) :
              /\ yielded[k].start = (IF k = 1 THEN 0 ELSE yielded[k - 1].end)
              /\ yielded[k].start < yielded[k].end
              /\ \E s \in 1..Len(rows) :
                    /\ offsets[s] <= yielded[k].start
                    /\ yielded[k].start < offsets[s + 1]
                    /\ yielded[k].end = Min(offsets[s + 1], yielded[k].start + c)
              /\ yielded[k].data = Rows(written, yielded[k].start, yielded[k].end)
        /\ pc = "iterating" =>
              /\ StackedChunkedArrayElem_len(Unwrap(iter)) = count
              /\ Len(yielded) <= count
              /\ last.op = "next" => (IsSome(last.ret) <=> last.pre_count < count)
              /\ (last.op = "next" /\ last.ret = None) =>
                    /\ Len(yielded) = count
                    /\ Sum(rows) > 0 => yielded[Len(yielded)].end = Sum(rows)
                    /\ ConcatData(yielded) = written.data

\* an exhausted iteration over three or more sources, one of them without
\* rows between two that have rows, the last chunk shorter than the chunk size
C39_Witness ==
    /\ pc = "iterating"
    /\ last.op = "next"
    /\ last.ret = None
    /\ Len(input.rows) >= 3
    /\ input.rows[1] >= input.chunk_size
    /\ input.rows[2] = 0
    /\ input.rows[3] % input.chunk_size # 0
    /\ input.chunk_size > 1
    /\ Len(yielded) >= 2


\* ------------------------------------------- Display for Slot, and show()
\* fmt takes the lock twice: once inside is_empty(), once for inner(); other
\* holders of the handle may run between the two.  show() of a backed AnnData
\* has the same two steps but runs inside a Python method, under the
\* interpreter lock, as close() and open() do.
\* fmt, first step: self.is_empty()
Display_is_empty(content) ==
    content = None

\* fmt, second step: the text for an empty slot, or inner().deref() formatted
Display_write(empty, content) ==
    IF empty THEN [panic |-> FALSE, text |-> "Empty or closed slot"]
    ELSE LET d == Inner_deref(content)
         IN  [panic |-> d.panic, text |-> IF d.panic THEN "" ELSE Unwrap(d.ret)]

\* InnerAnnData::show
InnerAnnData_show(content) ==
    Display_write(FALSE, content).text

\* ------------------------------------------------------------- SpecShow
\* One slot with two holders of its handle, each on a thread of its own, and
\* one backed AnnData object.  slot is the content of the slot's cell, adata
\* that of the object's.
ShowLog(op, t, text, panic) ==
    [op |-> op, t |-> t, text |-> text, panic |-> panic]

InitShow ==
    /\ slot = Some("x")
    /\ adata = Some("AnnData object")
    /\ pc = [t \in Threads |-> "idle"]
    /\ last = ShowLog("new", "t1", "", FALSE)
    /\ elem = None
    /\ written = None
    /\ warm_overwrite = FALSE
    /\ input = None
    /\ iter = None
    /\ yielded = <<>>
    /\ stack = None

showFrame == <<elem, written, warm_overwrite, input, iter, yielded, stack>>

fmt_is_empty(t) ==
    /\ pc[t] = "idle"
    /\ pc' = [pc EXCEPT ![t] = IF Display_is_empty(slot) THEN "saw_empty" ELSE "saw_value"]
    /\ UNCHANGED <<slot, adata, last, showFrame>>

fmt_write(t) ==
    /\ pc[t] \in {"saw_empty", "saw_value"}
    /\ \E r \in {Display_write(pc[t] = "saw_empty", slot)} :
          /\ last' = ShowLog("fmt", t, r.text, r.panic)
          /\ pc' = [pc EXCEPT ![t] = IF r.panic THEN "panicked" ELSE "idle"]
    /\ UNCHANGED <<slot, adata, showFrame>>

show_extract(t) ==
    /\ pc[t] = "idle"
    /\ slot' = Slot_extract(slot).content
    /\ last' = ShowLog("extract", t, "", FALSE)
    /\ UNCHANGED <<pc, adata, showFrame>>

show_insert(t) ==
    /\ pc[t] = "idle"
    /\ \E x \in SlotValues : slot' = Slot_insert(slot, x).content
    /\ last' = ShowLog("insert", t, "", FALSE)
    /\ UNCHANGED <<pc, adata, showFrame>>

\* the Python methods, one at a time
py_show(t) ==
    /\ pc[t] = "idle"
    /\ last' = ShowLog("show", t,
                       IF Display_is_empty(adata) THEN "Closed AnnData object"
                       ELSE InnerAnnData_show(adata), FALSE)
    /\ UNCHANGED <<pc, slot, adata, showFrame>>

py_close(t) ==
    /\ pc[t] = "idle"
    /\ adata' = Slot_extract(adata).content
    /\ last' = ShowLog("close", t, "", FALSE)
    /\ UNCHANGED <<pc, slot, showFrame>>

py_open(t) ==
    /\ pc[t] = "idle"
    /\ adata = None
    /\ adata' = Slot_insert(adata, "AnnData object").content
    /\ last' = ShowLog("open", t, "", FALSE)
    /\ UNCHANGED <<pc, slot, showFrame>>

NextShow ==
    \E t \in Threads :
        \/ fmt_is_empty(t)
        \/ fmt_write(t)
        \/ show_extract(t)
        \/ show_insert(t)
        \/ py_show(t)
        \/ py_close(t)
        \/ py_open(t)

SpecShow == InitShow /\ [][NextShow]_vars

\* C40: formatting a slot and show() of a backed AnnData never panic: they
\* produce the text of the value held or the text for an empty slot / a
\* closed object, whatever the other holders of the handle do meanwhile.
C40_FormatNeverFatal ==
    /\ last.op = "fmt" =>
          /\ ~last.panic
          /\ last.text \in SlotValues \cup {"Empty or closed slot"}
    /\ last.op = "show" =>
          /\ ~last.panic
          /\ last.text \in {"AnnData object", "Closed AnnData object"}

====
